---- MODULE Spec2Model ----
(***************************************************************************)
(* Ledger engine of ibledger.app: wallets, funds and the single            *)
(* `transactions` table that holds events and postings, with the route     *)
(* handlers that create, edit, delete and total them.                      *)
(*                                                                         *)
(* Numbers.  Every amount column is a double and every sum, product and    *)
(* quotient the handlers compute is the exact result rounded to the        *)
(* nearest double, ties to even.  The model keeps that arithmetic on a     *)
(* binary floating-point format of the same kind with a significand of     *)
(* Precision bits instead of 53: a number is an integer count of the       *)
(* format's smallest positive value, exact while it is below               *)
(* 2^Precision and a multiple of a power of two above.  The tolerance      *)
(* 1e-9 of the delete handlers is Tol, one such count.                     *)
(*                                                                         *)
(* Ids.  The id columns are identities generated from 1, so a table is a   *)
(* sequence and a row's id is its index.  Null (0) is SQL NULL in an id    *)
(* column, NoPull (-1) is SQL NULL in incomePull (0 is a legal pull).      *)
(***************************************************************************)
EXTENDS Integers, Sequences, FiniteSets, TLC

VARIABLES
    wallets,        \* table wallets
    funds,          \* table funds
    transactions,   \* table transactions (events and postings)
    last,           \* the response of the handler that ran last
    snap,           \* totals recorded just before the last created event
    req,            \* the POST /api/transactions request in flight (step-wise runs)
    calls           \* the other requests in flight, by connection (step-wise runs)

vars == <<wallets, funds, transactions, last, snap, req, calls>>

-----------------------------------------------------------------------------
(* Bounds of the model *)

MaxWallets == 1     \* wallets a run may create
MaxFunds   == 2     \* funds a run may create, Savings included
MaxRows    == 4     \* rows a run may insert into transactions
MaxEntityRows == 2  \* rows of a run of SpecEntities
MaxTotalsRows == 3  \* rows of a run of SpecTotals
MaxIncomeFunds == 3 \* funds of a run of SpecIncome, Savings included
MaxLedgerRows == 7  \* rows of a run of SpecOverdraft
MaxLedgerEvents == 2 \* events of a run of SpecOverdraft
MaxRaceRows == 3    \* rows of a run of SpecDeleteRace
MaxBootstrapFunds == 3 \* funds of a run of SpecBootstrap
MaxPatchRaceRows == 5 \* rows of a run of SpecPatchRace
MaxBalanceRows == 3 \* rows before a POST of SpecBalances
MaxRepayRows == 13 \* rows of a run of SpecRepay
MaxIsolationIds == 4 \* ids a request of SpecIsolation may name

(* Program constants *)

Null   == 0
NoPull == -1
Tol    == 1         \* the 1e-9 of Math.abs(bal) > 1e-9

Precision == 7      \* bits of the significand of a number

Users == {1}

-----------------------------------------------------------------------------
(* Arithmetic helpers *)

Abs(x) == IF x < 0 THEN -x ELSE x
Max(a, b) == IF a >= b THEN a ELSE b

RECURSIVE Pow2(_)
Pow2(n) == IF n = 0 THEN 1 ELSE 2 * Pow2(n - 1)

\* the spacing of the numbers around m / d: the least power of two u, from
\* u on, with m / d < 2^Precision * u
RECURSIVE UlpFrom(_, _, _)
UlpFrom(m, d, u) ==
    IF m < Pow2(Precision) * u * d THEN u ELSE UlpFrom(m, d, 2 * u)

\* the number nearest to n / d (d > 0), ties to the even significand
RoundRatio(n, d) ==
    LET m  == Abs(n)
        u  == UlpFrom(m, d, 1)
        q  == m \div (u * d)
        r2 == 2 * (m - q * u * d)
        v  == (IF r2 > u * d \/ (r2 = u * d /\ q % 2 = 1) THEN q + 1 ELSE q) * u
    IN  IF n < 0 THEN -v ELSE v

\* the double operations of the handlers: a + b, a - b, a * b, a / b
Plus(a, b)   == RoundRatio(a + b, 1)
Minus(a, b)  == RoundRatio(a - b, 1)
Times(a, b)  == RoundRatio(a * b, 1)
Over(a, b)   == RoundRatio(a, b)

\* a sum of doubles accumulated from 0 in ascending order of the index
RECURSIVE SumFrom(_, _, _)
SumFrom(acc, f, S) ==
    IF S = {} THEN acc
    ELSE LET i == CHOOSE x \in S : \A y \in S : x <= y
         IN  SumFrom(Plus(acc, f[i]), f, S \ {i})

SumOver(f, S) == SumFrom(0, f, S)

\* SUM(transactions.amount) over the rows S of the table txs
SumAmount(txs, S) == SumOver([i \in S |-> txs[i].amount], S)

-----------------------------------------------------------------------------
(* Rows *)

NewWallet(u, openingAmount) ==
    [userId |-> u, openingAmount |-> openingAmount, deleted |-> FALSE]

NewFund(u, isSavings, pullPercentage, openingAmount) ==
    [userId |-> u, isSavings |-> isSavings, pullPercentage |-> pullPercentage,
     openingAmount |-> openingAmount, deleted |-> FALSE]

NewTransaction(u, parentId, occurredAt, description, isPosting, isPending, incomePull, walletId, fundId, amount) ==
    [userId |-> u, parentId |-> parentId, occurredAt |-> occurredAt,
     description |-> description, isPosting |-> isPosting,
     isPending |-> isPending, incomePull |-> incomePull,
     walletId |-> walletId, fundId |-> fundId, amount |-> amount,
     deleted |-> FALSE]

LiveWallets(ws, u) == {w \in DOMAIN ws : ~ws[w].deleted}

\* wallets / funds of user u that are not soft-deleted
OwnedWallets(ws, u) == {w \in DOMAIN ws : ws[w].userId = u /\ ~ws[w].deleted}
OwnedFunds(fs, u)   == {f \in DOMAIN fs : fs[f].userId = u /\ ~fs[f].deleted}

-----------------------------------------------------------------------------
(* GET /api/totals *)

\* the left join of the wallet query: active postings of wallet w
WalletPostings(txs, u, w) ==
    {i \in DOMAIN txs : /\ txs[i].userId = u
                        /\ txs[i].walletId = w
                        /\ txs[i].isPosting
                        /\ ~txs[i].deleted}

\* the left join of the fund query: active postings of fund f
FundPostings(txs, u, f) ==
    {i \in DOMAIN txs : /\ txs[i].userId = u
                        /\ txs[i].fundId = f
                        /\ txs[i].isPosting
                        /\ ~txs[i].deleted}

ClearedOrPending(txs, S) == S

\* CASE WHEN isPending = false: the rows of S that are not pending
Cleared(txs, S) == {i \in S : ~txs[i].isPending}

walletTotals(ws, txs, u) ==
    [w \in OwnedWallets(ws, u) |->
        [balance |-> Plus(ws[w].openingAmount,
                          SumAmount(txs, Cleared(txs, WalletPostings(txs, u, w)))),
         balanceWithPending |-> Plus(ws[w].openingAmount,
                          SumAmount(txs, WalletPostings(txs, u, w)))]]

fundTotals(fs, txs, u) ==
    [f \in OwnedFunds(fs, u) |->
        [isSavings |-> fs[f].isSavings,
         balance |-> Plus(fs[f].openingAmount,
                          SumAmount(txs, Cleared(txs, FundPostings(txs, u, f)))),
         balanceWithPending |-> Plus(fs[f].openingAmount,
                          SumAmount(txs, FundPostings(txs, u, f)))]]

fundTotalsWithRaw(fs, txs, u) ==
    LET ft == fundTotals(fs, txs, u)
    IN  [f \in DOMAIN ft |->
            [isSavings |-> ft[f].isSavings,
             balance |-> ft[f].balance,
             balanceWithPending |-> ft[f].balanceWithPending,
             rawBalance |-> ft[f].balance,
             rawBalanceWithPending |-> ft[f].balanceWithPending]]

deficitOfAllFunds(raw) ==
    SumOver([f \in DOMAIN raw |-> Max(0, -raw[f].rawBalanceWithPending)],
            DOMAIN raw)

deficitNone(raw) == 0

deficitCleared(raw) ==
    LET ns == {f \in DOMAIN raw : ~raw[f].isSavings}
    IN  SumOver([f \in ns |-> Max(0, -raw[f].rawBalance)], ns)

deficitWithPending(raw) ==
    LET ns == {f \in DOMAIN raw : ~raw[f].isSavings}
    IN  SumOver([f \in ns |-> Max(0, -raw[f].rawBalanceWithPending)], ns)

fundTotalsDisplay(fs, txs, u) ==
    LET raw == fundTotalsWithRaw(fs, txs, u)
    IN  [f \in DOMAIN raw |->
            [raw[f] EXCEPT
                !.balance =
                    IF raw[f].isSavings
                    THEN Minus(raw[f].rawBalance, deficitCleared(raw))
                    ELSE Max(0, raw[f].rawBalance),
                !.balanceWithPending =
                    IF raw[f].isSavings
                    THEN Minus(raw[f].rawBalanceWithPending,
                               deficitWithPending(raw))
                    ELSE Max(0, raw[f].rawBalanceWithPending)]]

\* the response body of GET /api/totals
GetTotals(ws, fs, txs, u) ==
    LET wt == walletTotals(ws, txs, u)
    IN  [grandTotal |-> SumOver([w \in DOMAIN wt |-> wt[w].balance], DOMAIN wt),
         grandTotalWithPending |->
             SumOver([w \in DOMAIN wt |-> wt[w].balanceWithPending], DOMAIN wt),
         wallets |-> wt,
         funds |-> fundTotalsDisplay(fs, txs, u)]

-----------------------------------------------------------------------------
(* Responses *)

\* what is kept of the handler that ran last: the route, the id it was called
\* with (the new id for a POST) and the status it answered; for an event
\* written from a list of lines, how many lines the list had; for an event
\* written as an income, the wallet and the total of the request
Resp(op, status, id) ==
    [op |-> op, status |-> status, id |-> id, lines |-> 0,
     walletId |-> Null, amount |-> 0, events |-> <<>>]

RespEvent(op, status, id, body, fromLines, asIncome) ==
    [op |-> op, status |-> status, id |-> id,
     lines    |-> IF fromLines THEN Len(body.lines) ELSE 0,
     walletId |-> IF asIncome THEN body.walletId ELSE Null,
     amount   |-> IF asIncome THEN body.amount ELSE 0,
     events   |-> <<>>]

NoSnap == [eventId |-> Null, totals |-> <<>>]

\* no POST /api/transactions is between its two inserts
Idle == [pc |-> "idle", userId |-> Null, rows |-> <<>>, resp |-> <<>>]

\* no other request is between two of its statements
NoCalls == <<>>

-----------------------------------------------------------------------------
(* /api/wallets *)

\* the with-pending balance the DELETE handlers read before they delete
WalletBalanceWithPending(ws, txs, u, w) ==
    Plus(ws[w].openingAmount, SumAmount(txs, WalletPostings(txs, u, w)))

FundBalanceWithPending(fs, txs, u, f) ==
    Plus(fs[f].openingAmount, SumAmount(txs, FundPostings(txs, u, f)))

\* POST /api/wallets
WalletPost(u, hasName, openingAmount) ==
    /\ req.pc = "idle"
    /\ Len(wallets) < MaxWallets
    /\ IF ~hasName
       THEN /\ last' = Resp("walletPost", 400, Null)
            /\ UNCHANGED wallets
       ELSE /\ wallets' = Append(wallets, NewWallet(u, openingAmount))
            /\ last' = Resp("walletPost", 200, Len(wallets) + 1)
    /\ snap' = NoSnap
    /\ UNCHANGED <<funds, transactions, req, calls>>

\* PATCH /api/wallets
WalletPatch(u, walletId, hasOpening, openingAmount) ==
    /\ req.pc = "idle"
    /\ IF walletId = Null
       THEN /\ last' = Resp("walletPatch", 400, walletId)
            /\ UNCHANGED wallets
       ELSE IF walletId \notin OwnedWallets(wallets, u)
       THEN /\ last' = Resp("walletPatch", 404, walletId)
            /\ UNCHANGED wallets
       ELSE /\ wallets' = [wallets EXCEPT ![walletId].openingAmount =
                              IF hasOpening THEN openingAmount ELSE @]
            /\ last' = Resp("walletPatch", 200, walletId)
    /\ snap' = NoSnap
    /\ UNCHANGED <<funds, transactions, req, calls>>

HasBalanceNever(bal) == FALSE

\* the balance test of the two DELETE handlers: Math.abs(bal) > 1e-9
HasBalance(bal) == Abs(bal) > Tol

\* DELETE /api/wallets
WalletDelete(u, walletId) ==
    /\ req.pc = "idle"
    /\ IF walletId = Null
       THEN /\ last' = Resp("walletDelete", 400, walletId)
            /\ UNCHANGED wallets
       ELSE IF walletId \notin OwnedWallets(wallets, u)
       THEN /\ last' = Resp("walletDelete", 404, walletId)
            /\ UNCHANGED wallets
       ELSE IF HasBalance(WalletBalanceWithPending(wallets, transactions, u, walletId))
       THEN /\ last' = Resp("walletDelete", 400, walletId)
            /\ UNCHANGED wallets
       ELSE /\ wallets' = [wallets EXCEPT ![walletId].deleted = TRUE]
            /\ last' = Resp("walletDelete", 200, walletId)
    /\ snap' = NoSnap
    /\ UNCHANGED <<funds, transactions, req, calls>>

-----------------------------------------------------------------------------
(* /api/funds *)

\* POST /api/funds: a regular fund; pullPercentage takes the column default
FundPost(u, hasName, openingAmount) ==
    /\ req.pc = "idle"
    /\ Len(funds) < MaxFunds
    /\ IF ~hasName
       THEN /\ last' = Resp("fundPost", 400, Null)
            /\ UNCHANGED funds
       ELSE /\ funds' = Append(funds, NewFund(u, FALSE, 0, openingAmount))
            /\ last' = Resp("fundPost", 200, Len(funds) + 1)
    /\ snap' = NoSnap
    /\ UNCHANGED <<wallets, transactions, req, calls>>

\* PATCH /api/funds: name and openingAmount
FundPatch(u, fundId, hasOpening, openingAmount) ==
    /\ req.pc = "idle"
    /\ IF fundId = Null
       THEN /\ last' = Resp("fundPatch", 400, fundId)
            /\ UNCHANGED funds
       ELSE IF fundId \notin OwnedFunds(funds, u)
       THEN /\ last' = Resp("fundPatch", 404, fundId)
            /\ UNCHANGED funds
       ELSE /\ funds' = [funds EXCEPT ![fundId].openingAmount =
                            IF hasOpening THEN openingAmount ELSE @]
            /\ last' = Resp("fundPatch", 200, fundId)
    /\ snap' = NoSnap
    /\ UNCHANGED <<wallets, transactions, req, calls>>

\* PATCH /api/funds with pullPercentage, as the funds page sends it: the pull
\* of a regular fund is set to a value in 0..100, Savings keeps its pull
FundSetPull(u, fundId, pullPercentage) ==
    /\ req.pc = "idle"
    /\ fundId \in OwnedFunds(funds, u)
    /\ pullPercentage \in 0..100
    /\ funds' = [funds EXCEPT ![fundId].pullPercentage =
                    IF funds[fundId].isSavings THEN @ ELSE pullPercentage]
    /\ last' = Resp("fundSetPull", 200, fundId)
    /\ snap' = NoSnap
    /\ UNCHANGED <<wallets, transactions, req, calls>>

isSystemFundNever(fs, fundId) == FALSE

\* the fund DELETE refuses whatever its balance: Savings
isSystemFund(fs, fundId) == fs[fundId].isSavings

\* DELETE /api/funds
FundDelete(u, fundId) ==
    /\ req.pc = "idle"
    /\ IF fundId = Null
       THEN /\ last' = Resp("fundDelete", 400, fundId)
            /\ UNCHANGED funds
       ELSE IF fundId \notin OwnedFunds(funds, u)
       THEN /\ last' = Resp("fundDelete", 404, fundId)
            /\ UNCHANGED funds
       ELSE IF isSystemFund(funds, fundId)
       THEN /\ last' = Resp("fundDelete", 400, fundId)
            /\ UNCHANGED funds
       ELSE IF HasBalance(FundBalanceWithPending(funds, transactions, u, fundId))
       THEN /\ last' = Resp("fundDelete", 400, fundId)
            /\ UNCHANGED funds
       ELSE /\ funds' = [funds EXCEPT ![fundId].deleted = TRUE]
            /\ last' = Resp("fundDelete", 200, fundId)
    /\ snap' = NoSnap
    /\ UNCHANGED <<wallets, transactions, req, calls>>

-----------------------------------------------------------------------------
(* POST /api/transactions *)

RECURSIVE SortedSeq(_)
SortedSeq(S) ==
    IF S = {} THEN <<>>
    ELSE LET m == CHOOSE x \in S : \A y \in S : x <= y
         IN  <<m>> \o SortedSeq(S \ {m})

\* let s = 0; for (const x of q) s += x
SumSeq(q) == SumOver(q, DOMAIN q)

\* line.isPending === undefined ? eventIsPending : Boolean(line.isPending)
PendingOr(p, dflt) == IF p = "undefined" THEN dflt ELSE p = "true"

\* the ids a request names: null, undefined and 0 are dropped by filter(!!id)
neededWalletIds(lines) ==
    {lines[k].walletId : k \in DOMAIN lines} \ {Null}
neededFundIds(lines) ==
    {lines[k].fundId : k \in DOMAIN lines} \ {Null}

\* the funds an income is split over: non-savings funds with a positive pull
normalizedPulls(fs, u) ==
    SortedSeq({f \in OwnedFunds(fs, u) :
                  ~fs[f].isSavings /\ fs[f].pullPercentage > 0})

pullSumZero(fs, u) == 0

pullSum(fs, u) ==
    LET np == normalizedPulls(fs, u)
    IN  SumSeq([k \in DOMAIN np |-> fs[np[k]].pullPercentage])

\* (amount * pull.percentage) / 100
allocated(amount, percentage) == Over(Times(amount, percentage), 100)

\* the Savings posting of an income: amount - allocatedTotal
savingsAllocated(amount, allocatedTotal) == Minus(amount, allocatedTotal)

savingsFundOf(fs, u) ==
    LET sv == {f \in OwnedFunds(fs, u) : fs[f].isSavings}
    IN  IF sv = {} THEN Null ELSE CHOOSE f \in sv : \A g \in sv : f <= g

\* body.description ? String(body.description) : null
DescOrNull(d) == IF d = "undefined" THEN "null" ELSE d

\* the parent row of a multi-line or income event
ParentRow(u, occurredAt, description, eventIsPending) ==
    NewTransaction(u, Null, occurredAt, description, FALSE, eventIsPending,
                   NoPull, Null, Null, 0)

\* the postings of an income of `amount` into walletId, under parent pid
incomePostingRows(fs, u, pid, occurredAt, isPending, walletId, amount) ==
    LET np     == normalizedPulls(fs, u)
        allocs == [k \in DOMAIN np |->
                      allocated(amount, fs[np[k]].pullPercentage)]
        savingsPullPct == Minus(100, pullSum(fs, u))
    IN  [k \in DOMAIN np |->
            NewTransaction(u, pid, occurredAt, "null", TRUE, isPending,
                           fs[np[k]].pullPercentage, walletId, np[k], allocs[k])]
        \o <<NewTransaction(u, pid, occurredAt, "null", TRUE, isPending,
                            savingsPullPct, walletId, savingsFundOf(fs, u),
                            savingsAllocated(amount, SumSeq(allocs)))>>

\* the posting rows of the lines of a request, under parent pid
linePostingRows(u, pid, occurredAt, lines, eventIsPending) ==
    [k \in DOMAIN lines |->
        NewTransaction(u, pid, occurredAt, "null", TRUE,
                       PendingOr(lines[k].isPending, eventIsPending),
                       NoPull, lines[k].walletId, lines[k].fundId,
                       lines[k].amount)]

\* What POST does with a body, given the tables it reads: the status it
\* answers, the root row it inserts first (roots = <<>>: none) and the child
\* rows it inserts next.  pid is the id the root row gets.
PostPlan(ws, fs, u, pid, body) ==
    LET eventIsPending == PendingOr(body.isPending, TRUE)
        Fail(st) == [status |-> st, roots |-> <<>>, children |-> <<>>]
    IN
    IF body.occurredAt = 0 THEN Fail(400)
    ELSE IF body.type = "income" THEN
        IF savingsFundOf(fs, u) = Null THEN Fail(400)
        ELSE IF body.walletId = Null THEN Fail(400)
        ELSE IF body.amount <= 0 THEN Fail(400)
        ELSE IF body.walletId \notin OwnedWallets(ws, u) THEN Fail(404)
        ELSE IF pullSum(fs, u) > 100 THEN Fail(400)
        ELSE [status |-> 200,
              roots |-> <<ParentRow(u, body.occurredAt,
                                    DescOrNull(body.description),
                                    eventIsPending)>>,
              children |-> incomePostingRows(fs, u, pid, body.occurredAt,
                                             eventIsPending, body.walletId,
                                             body.amount)]
    ELSE IF ~body.hasLines \/ Len(body.lines) = 0 THEN Fail(400)
    ELSE IF \E k \in DOMAIN body.lines :
                \/ body.lines[k].amount = 0
                \/ body.lines[k].walletId = Null /\ body.lines[k].fundId = Null
         THEN Fail(400)
    ELSE IF ~(neededWalletIds(body.lines) \subseteq OwnedWallets(ws, u))
         THEN Fail(400)
    ELSE IF ~(neededFundIds(body.lines) \subseteq OwnedFunds(fs, u))
         THEN Fail(400)
    ELSE IF Len(body.lines) = 1 THEN
        [status |-> 200,
         roots |-> <<NewTransaction(u, Null, body.occurredAt,
                        DescOrNull(body.description), TRUE,
                        PendingOr(body.lines[1].isPending, eventIsPending),
                        NoPull, body.lines[1].walletId, body.lines[1].fundId,
                        body.lines[1].amount)>>,
         children |-> <<>>]
    ELSE
        [status |-> 200,
         roots |-> <<ParentRow(u, body.occurredAt,
                               DescOrNull(body.description), eventIsPending)>>,
         children |-> linePostingRows(u, pid, body.occurredAt, body.lines,
                                      eventIsPending)]

Snapshot(eventId) ==
    [eventId |-> eventId,
     totals |-> [u \in Users |-> GetTotals(wallets, funds, transactions, u)]]

\* POST /api/transactions, run to its response without interruption
TxPost(u, body) ==
    /\ req.pc = "idle"
    /\ \E pid \in {Len(transactions) + 1} :
       \E plan \in {PostPlan(wallets, funds, u, pid, body)} :
           /\ Len(transactions) + Len(plan.roots) + Len(plan.children) <= MaxRows
           /\ transactions' = transactions \o plan.roots \o plan.children
           /\ IF plan.status = 200
              THEN /\ last' = RespEvent("txPost", 200, pid, body,
                                        body.type # "income",
                                        body.type = "income")
                   /\ snap' = Snapshot(pid)
              ELSE /\ last' = Resp("txPost", plan.status, Null)
                   /\ snap' = NoSnap
    /\ UNCHANGED <<wallets, funds, req, calls>>

\* POST /api/transactions statement by statement: the reads and checks up to
\* the first insert, which the database commits on its own
PostBegin(u, body) ==
    /\ req.pc = "idle"
    /\ \E pid \in {Len(transactions) + 1} :
       \E plan \in {PostPlan(wallets, funds, u, pid, body)} :
           /\ Len(transactions) + Len(plan.roots) + Len(plan.children) <= MaxRows
           /\ transactions' = transactions \o plan.roots
           /\ IF plan.status # 200
              THEN /\ last' = Resp("txPost", plan.status, Null)
                   /\ req' = Idle
              ELSE IF plan.children = <<>>
              THEN /\ last' = RespEvent("txPost", 200, pid, body, TRUE, FALSE)
                   /\ req' = Idle
              ELSE /\ last' = last
                   /\ req' = [pc |-> "children", userId |-> u,
                              rows |-> plan.children,
                              resp |-> RespEvent("txPost", 200, pid, body,
                                                 body.type # "income",
                                                 body.type = "income")]
    /\ snap' = NoSnap
    /\ UNCHANGED <<wallets, funds, calls>>

\* the second insert, of the rows under the parent, and the response
PostInsertChildren(u) ==
    /\ req.pc = "children"
    /\ req.userId = u
    /\ transactions' = transactions \o req.rows
    /\ last' = req.resp
    /\ req' = Idle
    /\ UNCHANGED <<wallets, funds, snap, calls>>

\* the second insert throws (the connection drops, the statement is
\* cancelled): the catch block answers 500 and nothing undoes the first
PostInsertFails(u) ==
    /\ req.pc = "children"
    /\ req.userId = u
    /\ last' = Resp("txPost", 500, Null)
    /\ req' = Idle
    /\ UNCHANGED <<wallets, funds, transactions, snap, calls>>

\* the events GET /api/transactions answers: the live root rows, each with
\* the live postings under it when it is a parent
listedEvents(txs, u) ==
    [e \in {i \in DOMAIN txs : /\ txs[i].userId = u
                               /\ txs[i].parentId = Null
                               /\ ~txs[i].deleted} |->
        [isPosting |-> txs[e].isPosting,
         children |-> IF txs[e].isPosting THEN {}
                      ELSE {i \in DOMAIN txs : /\ txs[i].userId = u
                                               /\ txs[i].isPosting
                                               /\ txs[i].parentId = e
                                               /\ ~txs[i].deleted}]]

\* GET /api/transactions, which may run between the statements of a POST
TxList(u) ==
    /\ last' = [Resp("txList", 200, Null) EXCEPT
                   !.events = listedEvents(transactions, u)]
    /\ UNCHANGED <<wallets, funds, transactions, snap, req, calls>>

-----------------------------------------------------------------------------
(* PATCH /api/transactions/:id *)

\* the event lookup of PATCH and DELETE: a live root row of the user
LiveRoot(txs, u, eventId) ==
    /\ eventId \in DOMAIN txs
    /\ txs[eventId].userId = u
    /\ txs[eventId].parentId = Null
    /\ ~txs[eventId].deleted

\* childPostings: the active posting rows under the event
childPostings(txs, u, eventId) ==
    {i \in DOMAIN txs : /\ txs[i].userId = u
                        /\ txs[i].parentId = eventId
                        /\ txs[i].isPosting
                        /\ ~txs[i].deleted}

\* the rows `where parentId = eventId and deletedAt is null` updates
activeChildren(txs, u, eventId) ==
    {i \in DOMAIN txs : /\ txs[i].userId = u
                        /\ txs[i].parentId = eventId
                        /\ ~txs[i].deleted}

isIncomeLikeEvent(txs, u, eventId) ==
    IF txs[eventId].isPosting THEN FALSE
    ELSE \E i \in childPostings(txs, u, eventId) : txs[i].incomePull # NoPull

currentPull(fs, p) == fs[p.fundId].pullPercentage

\* const pct = Number(p.incomePull ?? 0): the pull stored on the posting
pct(fs, p) == p.incomePull

\* the income branch of PATCH, inside its transaction
PatchIncome(fs, txs, u, eventId, occurredAt, description, eventIsPending, nextWalletId, nextTotal) ==
    LET kids   == activeChildren(txs, u, eventId)
        meta   == [i \in DOMAIN txs |->
                     IF i = eventId
                     THEN [txs[i] EXCEPT !.occurredAt = occurredAt,
                                         !.description = description,
                                         !.isPending = eventIsPending]
                     ELSE IF i \in kids
                     THEN [txs[i] EXCEPT !.occurredAt = occurredAt,
                                         !.isPending = eventIsPending]
                     ELSE txs[i]]
        allocationPostings ==
            SortedSeq({i \in childPostings(txs, u, eventId) :
                          txs[i].incomePull # NoPull})
        savingsFundId == savingsFundOf(fs, u)
        savingsIdx == {k \in DOMAIN allocationPostings :
                          txs[allocationPostings[k]].fundId = savingsFundId}
    IN
    IF allocationPostings = <<>> THEN [status |-> 200, txs |-> meta]
    ELSE IF savingsIdx = {} THEN [status |-> 400, txs |-> txs]
    ELSE
        LET savingsPosting ==
                allocationPostings[CHOOSE k \in savingsIdx :
                                       \A j \in savingsIdx : k <= j]
            nonSavingsPostings ==
                {allocationPostings[k] : k \in DOMAIN allocationPostings}
                    \ {savingsPosting}
            nextAmount == [i \in nonSavingsPostings |->
                              allocated(nextTotal, pct(fs, txs[i]))]
            nonSavingsAllocated == SumOver(nextAmount, nonSavingsPostings)
        IN  [status |-> 200,
             txs |-> [i \in DOMAIN txs |->
                 IF i \in nonSavingsPostings
                 THEN [meta[i] EXCEPT !.walletId = nextWalletId,
                                      !.amount = nextAmount[i]]
                 ELSE IF i = savingsPosting
                 THEN [meta[i] EXCEPT !.walletId = nextWalletId,
                                      !.amount = savingsAllocated(
                                          nextTotal, nonSavingsAllocated)]
                 ELSE meta[i]]]

SoftDeleteNone(txs, u, S) == txs

\* update transactions set deletedAt = now where userId = u and id in S
SoftDelete(txs, u, S) ==
    [i \in DOMAIN txs |->
        IF i \in S /\ txs[i].userId = u
        THEN [txs[i] EXCEPT !.deleted = TRUE] ELSE txs[i]]

\* the rebuild transaction of PATCH for a list of lines, given the shape and
\* the children of the event as the handler read them before the transaction
rebuildTransaction(txs, u, eventId, occurredAt, description, eventIsPending, lines, existingPostingOnly, existingChildIds) ==
    LET pend(k) == PendingOr(lines[k].isPending, eventIsPending)
    IN
    IF Len(lines) = 1 THEN
        \* posting_only
        LET t1 == IF ~existingPostingOnly /\ existingChildIds # {}
                  THEN SoftDelete(txs, u, existingChildIds) ELSE txs
        IN  [t1 EXCEPT ![eventId] =
                [@ EXCEPT !.occurredAt = occurredAt,
                          !.description = description,
                          !.isPosting = TRUE,
                          !.isPending = pend(1),
                          !.incomePull = NoPull,
                          !.walletId = lines[1].walletId,
                          !.fundId = lines[1].fundId,
                          !.amount = lines[1].amount]]
    ELSE
        \* parent_children
        LET t1 == [txs EXCEPT ![eventId] =
                      [@ EXCEPT !.occurredAt = occurredAt,
                                !.description = description,
                                !.isPosting = FALSE,
                                !.isPending = eventIsPending,
                                !.incomePull = NoPull,
                                !.walletId = Null,
                                !.fundId = Null,
                                !.amount = 0]]
        IN
        IF existingPostingOnly
        THEN t1 \o linePostingRows(u, eventId, occurredAt, lines, eventIsPending)
        ELSE
            LET updK == {k \in DOMAIN lines : lines[k].transactionId # Null}
                updateIds == {lines[k].transactionId : k \in updK}
                lineOf(i) == CHOOSE k \in updK : lines[k].transactionId = i
                t2 == [i \in DOMAIN t1 |->
                         IF i \in updateIds /\ t1[i].userId = u
                         THEN [t1[i] EXCEPT
                                  !.occurredAt = occurredAt,
                                  !.description = "null",
                                  !.isPosting = TRUE,
                                  !.isPending = pend(lineOf(i)),
                                  !.incomePull = NoPull,
                                  !.walletId = lines[lineOf(i)].walletId,
                                  !.fundId = lines[lineOf(i)].fundId,
                                  !.amount = lines[lineOf(i)].amount]
                         ELSE t1[i]]
                newK == SortedSeq(DOMAIN lines \ updK)
                newLines == [j \in DOMAIN newK |-> lines[newK[j]]]
                t3 == t2 \o linePostingRows(u, eventId, occurredAt, newLines,
                                            eventIsPending)
            IN  SoftDelete(t3, u, existingChildIds \ updateIds)

\* the rebuild of a PATCH that runs from its reads to its commit alone
PatchLines(txs, u, eventId, occurredAt, description, eventIsPending, lines) ==
    rebuildTransaction(txs, u, eventId, occurredAt, description, eventIsPending,
                       lines, txs[eventId].isPosting,
                       childPostings(txs, u, eventId))

\* What PATCH does with a body: the status it answers and the table it leaves.
PatchPlan(ws, fs, txs, u, eventId, body) ==
    LET Fail(st) == [status |-> st, txs |-> txs]
    IN
    IF eventId = Null THEN Fail(400)
    ELSE IF ~LiveRoot(txs, u, eventId) THEN Fail(404)
    ELSE
    LET event == txs[eventId]
        occurredAt == IF body.occurredAt = 0 THEN event.occurredAt
                      ELSE body.occurredAt
        description == IF body.description = "undefined"
                       THEN event.description ELSE body.description
        eventIsPending == PendingOr(body.isPending, event.isPending)
        lines == body.lines
        kids == activeChildren(txs, u, eventId)
    IN
    IF body.type = "income" \/ isIncomeLikeEvent(txs, u, eventId) THEN
        IF body.walletId = Null THEN Fail(400)
        ELSE IF body.amount <= 0 THEN Fail(400)
        ELSE IF body.walletId \notin OwnedWallets(ws, u) THEN Fail(404)
        ELSE IF savingsFundOf(fs, u) = Null THEN Fail(400)
        ELSE PatchIncome(fs, txs, u, eventId, occurredAt, description,
                         eventIsPending, body.walletId, body.amount)
    ELSE IF body.hasLines /\ \E k \in DOMAIN lines :
                \/ lines[k].amount = 0
                \/ lines[k].walletId = Null
                \/ lines[k].fundId = Null
         THEN Fail(400)
    ELSE IF ~body.hasLines THEN
        \* metadata-only update
        [status |-> 200,
         txs |-> [i \in DOMAIN txs |->
             IF i = eventId
             THEN [txs[i] EXCEPT !.occurredAt = occurredAt,
                                 !.description = description,
                                 !.isPending = eventIsPending]
             ELSE IF ~event.isPosting /\ i \in kids
             THEN [txs[i] EXCEPT !.occurredAt = occurredAt,
                                 !.isPending = eventIsPending]
             ELSE txs[i]]]
    ELSE IF Len(lines) = 0 THEN Fail(400)
    ELSE IF \E j, k \in DOMAIN lines :
                /\ j # k
                /\ lines[j].transactionId # Null
                /\ lines[j].transactionId = lines[k].transactionId
         THEN Fail(400)
    ELSE IF event.isPosting /\ \E k \in DOMAIN lines :
                lines[k].transactionId \notin {Null, eventId}
         THEN Fail(400)
    ELSE IF ~event.isPosting /\ \E k \in DOMAIN lines :
                \/ lines[k].transactionId = eventId
                \/ /\ lines[k].transactionId # Null
                   /\ lines[k].transactionId \notin childPostings(txs, u, eventId)
         THEN Fail(400)
    ELSE IF ~(neededWalletIds(lines) \subseteq OwnedWallets(ws, u)) THEN Fail(400)
    ELSE IF ~(neededFundIds(lines) \subseteq OwnedFunds(fs, u)) THEN Fail(400)
    ELSE [status |-> 200,
          txs |-> PatchLines(txs, u, eventId, occurredAt, description,
                             eventIsPending, lines)]

\* PATCH /api/transactions/:id
TxPatch(u, eventId, body) ==
    /\ req.pc = "idle"
    /\ \E plan \in {PatchPlan(wallets, funds, transactions, u, eventId, body)} :
           /\ Len(plan.txs) <= MaxRows
           /\ transactions' = plan.txs
           /\ LET asIncome == /\ plan.status = 200
                               /\ \/ body.type = "income"
                                  \/ isIncomeLikeEvent(transactions, u, eventId)
                  fromLines == plan.status = 200 /\ ~asIncome /\ body.hasLines
              IN  last' = RespEvent("txPatch", plan.status, eventId, body,
                                    fromLines, asIncome)
    /\ snap' = NoSnap
    /\ UNCHANGED <<wallets, funds, req, calls>>

-----------------------------------------------------------------------------
(* DELETE /api/transactions/:id *)

DeletedRootOnly(txs, u, eventId) ==
    [i \in DOMAIN txs |->
        IF txs[i].userId = u /\ i = eventId
        THEN [txs[i] EXCEPT !.deleted = TRUE] ELSE txs[i]]

\* the two updates of DELETE: the row of the event, then the rows under it
DeletedEvent(txs, u, eventId) ==
    [i \in DOMAIN txs |->
        IF /\ txs[i].userId = u
           /\ (i = eventId \/ txs[i].parentId = eventId)
        THEN [txs[i] EXCEPT !.deleted = TRUE] ELSE txs[i]]

TxDelete(u, eventId) ==
    /\ req.pc = "idle"
    /\ IF eventId = Null
       THEN /\ last' = Resp("txDelete", 400, eventId)
            /\ UNCHANGED transactions
       ELSE IF ~LiveRoot(transactions, u, eventId)
       THEN /\ last' = Resp("txDelete", 404, eventId)
            /\ UNCHANGED transactions
       ELSE /\ transactions' = DeletedEvent(transactions, u, eventId)
            /\ last' = Resp("txDelete", 200, eventId)
    /\ snap' = IF snap.eventId = eventId /\ eventId # Null /\ last.op = "txPost"
               THEN snap ELSE NoSnap
    /\ UNCHANGED <<wallets, funds, req, calls>>

-----------------------------------------------------------------------------
(* POST /api/transactions/clear-pending *)

ClearedPostings(txs, u) ==
    [i \in DOMAIN txs |->
        IF txs[i].userId = u /\ txs[i].isPending /\ txs[i].isPosting
        THEN [txs[i] EXCEPT !.isPending = FALSE] ELSE txs[i]]

\* update transactions set isPending = false
\*   where userId = u and isPending and deletedAt is null
ClearedPending(txs, u) ==
    [i \in DOMAIN txs |->
        IF txs[i].userId = u /\ txs[i].isPending /\ ~txs[i].deleted
        THEN [txs[i] EXCEPT !.isPending = FALSE] ELSE txs[i]]

ClearPending(u) ==
    /\ req.pc = "idle"
    /\ transactions' = ClearedPending(transactions, u)
    /\ last' = Resp("clearPending", 200, Null)
    /\ snap' = NoSnap
    /\ UNCHANGED <<wallets, funds, req, calls>>

-----------------------------------------------------------------------------
(* Request bodies *)

Line(transactionId, walletId, fundId, amount, isPending) ==
    [transactionId |-> transactionId, walletId |-> walletId,
     fundId |-> fundId, amount |-> amount, isPending |-> isPending]

IncomeBody(occurredAt, isPending, walletId, amount) ==
    [type |-> "income", occurredAt |-> occurredAt, description |-> "undefined",
     isPending |-> isPending, walletId |-> walletId, amount |-> amount,
     hasLines |-> FALSE, lines |-> <<>>]

LinesBody(occurredAt, isPending, lines) ==
    [type |-> "none", occurredAt |-> occurredAt, description |-> "undefined",
     isPending |-> isPending, walletId |-> Null, amount |-> 0,
     hasLines |-> TRUE, lines |-> lines]

MetaBody(occurredAt, isPending) ==
    [type |-> "none", occurredAt |-> occurredAt, description |-> "undefined",
     isPending |-> isPending, walletId |-> Null, amount |-> 0,
     hasLines |-> FALSE, lines |-> <<>>]

RowIds == 0..MaxRows

-----------------------------------------------------------------------------
(* Spec: the event handlers on a ledger of one wallet, Savings and one      *)
(* regular fund with a pull of 30                                           *)

EventPendings == {"undefined", "false"}

\* an expense of 1 from wallet 1 and fund 2, and a credit of 2 to wallet 1
\* that names no fund, which POST accepts and PATCH rejects
Expense(transactionId) == Line(transactionId, 1, 2, -1, "undefined")

Credit == Line(Null, 1, Null, 2, "undefined")

EventPostBodies ==
    {IncomeBody(1, p, 1, a) : p \in EventPendings, a \in {0, 10}}
    \cup {LinesBody(1, p, ls) : p \in EventPendings,
              ls \in {<<Expense(Null)>>, <<Credit>>, <<Expense(Null), Credit>>}}
    \cup {LinesBody(1, "undefined", <<>>)}

EventPatchBodies ==
    {IncomeBody(1, "undefined", 1, 20), MetaBody(1, "true"),
     LinesBody(1, "undefined", <<Expense(Null)>>),
     LinesBody(1, "undefined", <<Expense(Null), Expense(Null)>>),
     LinesBody(1, "undefined", <<Credit>>)}
    \cup {LinesBody(1, "undefined", <<Expense(t)>>) : t \in 1..MaxRows}
    \cup {LinesBody(1, "undefined", <<Expense(t), Expense(Null)>>) : t \in 1..MaxRows}

Init ==
    /\ wallets = <<NewWallet(1, 0)>>
    /\ funds = <<NewFund(1, TRUE, 0, 0), NewFund(1, FALSE, 30, 0)>>
    /\ transactions = <<>>
    /\ last = Resp("import", 200, Null)
    /\ snap = NoSnap
    /\ req = Idle
    /\ calls = NoCalls

Next ==
    \E u \in Users :
        \/ \E b \in EventPostBodies : TxPost(u, b)
        \/ \E e \in RowIds, b \in EventPatchBodies : TxPatch(u, e, b)
        \/ \E e \in RowIds : TxDelete(u, e)
        \/ ClearPending(u)

Spec == Init /\ [][Next]_vars

\* row i is a live row
Live(i) == i \in DOMAIN transactions /\ ~transactions[i].deleted

LiveChildren(e) == {i \in DOMAIN transactions : Live(i) /\ transactions[i].parentId = e}

\* the cleared and the with-pending balance of wallet w and of fund f over
\* the rows txs: openingAmount plus the live postings, pending ones or not
WalletFigure(txs, w, withPending) ==
    Plus(wallets[w].openingAmount,
         SumAmount(txs, {i \in DOMAIN txs :
                            /\ txs[i].walletId = w
                            /\ txs[i].isPosting
                            /\ ~txs[i].deleted
                            /\ (withPending \/ ~txs[i].isPending)}))

FundFigure(txs, f, withPending) ==
    Plus(funds[f].openingAmount,
         SumAmount(txs, {i \in DOMAIN txs :
                            /\ txs[i].fundId = f
                            /\ txs[i].isPosting
                            /\ ~txs[i].deleted
                            /\ (withPending \/ ~txs[i].isPending)}))

\* C7. After POST /api/transactions/clear-pending no live row of the user,
\* event or posting, is pending; every wallet and every fund has a cleared
\* balance equal to its with-pending balance; and every with-pending balance
\* is what it was before the call.
C7_ClearPending ==
    [][ last'.op = "clearPending" =>
          /\ UNCHANGED <<wallets, funds>>
          /\ \A i \in DOMAIN transactions' :
                 ~transactions'[i].deleted => ~transactions'[i].isPending
          /\ \A w \in DOMAIN wallets :
                 /\ WalletFigure(transactions', w, FALSE)
                        = WalletFigure(transactions', w, TRUE)
                 /\ WalletFigure(transactions', w, TRUE)
                        = WalletFigure(transactions, w, TRUE)
          /\ \A f \in DOMAIN funds :
                 /\ FundFigure(transactions', f, FALSE)
                        = FundFigure(transactions', f, TRUE)
                 /\ FundFigure(transactions', f, TRUE)
                        = FundFigure(transactions, f, TRUE)
      ]_vars

\* clear-pending has run over a live parent event with its postings and a
\* live one-line event, both created pending, while the rows of a deleted
\* event keep their pending mark
C7_Witness ==
    /\ last.op = "clearPending"
    /\ \E e \in DOMAIN transactions :
           /\ Live(e)
           /\ ~transactions[e].isPosting
           /\ Cardinality(LiveChildren(e)) >= 2
    /\ \E i \in DOMAIN transactions :
           /\ transactions[i].deleted
           /\ transactions[i].isPending
    /\ GetTotals(wallets, funds, transactions, 1).grandTotalWithPending # 0

\* C8. Create followed by delete is a round trip on balances: when an event
\* is created and then deleted, every wallet's and every fund's cleared and
\* with-pending balance, raw and displayed, is what it was before the create.
C8_CreateDeleteRoundTrip ==
    (/\ last.op = "txDelete"
     /\ last.status = 200
     /\ snap.eventId = last.id)
        => \A u \in Users :
               GetTotals(wallets, funds, transactions, u) = snap.totals[u]

\* an event of a parent row and its postings was created on a ledger that
\* already held balances, and has just been deleted
C8_Witness ==
    /\ last.op = "txDelete"
    /\ last.status = 200
    /\ snap.eventId = last.id
    /\ \E i \in DOMAIN transactions :
           /\ transactions[i].parentId = last.id
           /\ transactions[i].amount # 0
    /\ snap.totals[1].grandTotalWithPending # 0
    /\ \E f \in DOMAIN snap.totals[1].funds :
           snap.totals[1].funds[f].rawBalanceWithPending < 0

\* shape (a): a posting-only event, a root posting with no live row under it
PostingOnly(e) ==
    /\ transactions[e].parentId = Null
    /\ transactions[e].isPosting
    /\ LiveChildren(e) = {}

\* shape (b): a parent, a root row that is no posting and has live postings
\* under it
ParentWithChildren(e) ==
    /\ transactions[e].parentId = Null
    /\ ~transactions[e].isPosting
    /\ transactions[e].amount = 0
    /\ transactions[e].walletId = Null
    /\ transactions[e].fundId = Null
    /\ LiveChildren(e) # {}

-----------------------------------------------------------------------------
(* SpecEntities: the wallet and fund handlers, from a bootstrapped ledger,  *)
(* with one-line events that move the balances the DELETE handlers read     *)

Openings == {0, 1}

WalletIds == 0..MaxWallets
FundIds   == 0..MaxFunds

\* one-line events on wallet 1: amounts 1 and -2 on Savings or fund 2, and a
\* line that names a wallet and no fund
EntityPostBodies ==
    {LinesBody(1, "undefined", <<Line(Null, 1, f, a, "undefined")>>) :
        f \in FundIds, a \in {1, -2}}

InitEntities ==
    /\ wallets = <<>>
    /\ funds = <<NewFund(1, TRUE, 0, 0)>>
    /\ transactions = <<>>
    /\ last = Resp("bootstrap", 200, 1)
    /\ snap = NoSnap
    /\ req = Idle
    /\ calls = NoCalls

NextEntities ==
    \E u \in Users :
        \/ \E n \in BOOLEAN, o \in Openings : WalletPost(u, n, o)
        \/ \E w \in WalletIds, h \in BOOLEAN, o \in Openings :
               WalletPatch(u, w, h, o)
        \/ \E w \in WalletIds : WalletDelete(u, w)
        \/ \E n \in BOOLEAN, o \in Openings : FundPost(u, n, o)
        \/ \E f \in FundIds, h \in BOOLEAN, o \in Openings :
               FundPatch(u, f, h, o)
        \/ \E f \in FundIds : FundDelete(u, f)
        \/ \E b \in EntityPostBodies :
               Len(transactions) < MaxEntityRows /\ TxPost(u, b)
        \/ \E e \in 0..MaxEntityRows : TxDelete(u, e)

SpecEntities == InitEntities /\ [][NextEntities]_vars

\* the rows of the three tables
tables == <<wallets, funds, transactions>>

\* C1. Cross-check invariant: in every reachable state the with-pending
\* balances of the user's live wallets (openingAmount plus active postings)
\* add up to the raw with-pending balances of the user's live funds, as
\* GET /api/totals returns them.  The handlers do not keep it: POST
\* /api/wallets stores any openingAmount, and POST /api/transactions accepts
\* a line that names a wallet and no fund.
C1_CrossCheck ==
    \A u \in Users :
        LET t == GetTotals(wallets, funds, transactions, u)
        IN  SumOver([w \in DOMAIN t.wallets |-> t.wallets[w].balanceWithPending],
                    DOMAIN t.wallets)
            = SumOver([f \in DOMAIN t.funds |-> t.funds[f].rawBalanceWithPending],
                      DOMAIN t.funds)

\* the with-pending balance of a wallet / fund, from the rows
WalletRawWithPending(w) ==
    Plus(wallets[w].openingAmount,
         SumOver([i \in DOMAIN transactions |-> transactions[i].amount],
                 {i \in DOMAIN transactions :
                     /\ transactions[i].walletId = w
                     /\ transactions[i].isPosting
                     /\ ~transactions[i].deleted}))

FundRawWithPending(f) ==
    Plus(funds[f].openingAmount,
         SumOver([i \in DOMAIN transactions |-> transactions[i].amount],
                 {i \in DOMAIN transactions :
                     /\ transactions[i].fundId = f
                     /\ transactions[i].isPosting
                     /\ ~transactions[i].deleted}))

\* a DELETE of a live wallet / live non-savings fund is the step being taken
WalletDeleteStep ==
    /\ last'.op = "walletDelete"
    /\ last'.id \in DOMAIN wallets
    /\ ~wallets[last'.id].deleted

FundDeleteStep ==
    /\ last'.op = "fundDelete"
    /\ last'.id \in DOMAIN funds
    /\ ~funds[last'.id].deleted
    /\ ~funds[last'.id].isSavings

\* the outcome of a DELETE that `refused` tells to fail
DeleteOutcome(refused, table, id) ==
    IF refused
    THEN /\ last'.status = 400
         /\ UNCHANGED tables
    ELSE /\ last'.status = 200
         /\ table'[id].deleted

-----------------------------------------------------------------------------
(* SpecTotals: GET /api/totals over a wallet, Savings and two regular funds *)
(* whose opening amounts are drawn from a small set, under one-line events  *)

TotalsPostBodies ==
    {LinesBody(1, p, <<Line(Null, 1, f, a, "undefined")>>) :
        p \in {"undefined", "false"}, f \in 1..3, a \in {1, -2}}

InitTotals ==
    /\ wallets = <<NewWallet(1, 0)>>
    /\ \E o2 \in {0, -1} :
           funds = <<NewFund(1, TRUE, 0, 1), NewFund(1, FALSE, 0, o2),
                     NewFund(1, FALSE, 0, 0)>>
    /\ transactions = <<>>
    /\ last = Resp("fundPost", 200, 3)
    /\ snap = NoSnap
    /\ req = Idle
    /\ calls = NoCalls

NextTotals ==
    \E u \in Users :
        \/ \E b \in TotalsPostBodies :
               Len(transactions) < MaxTotalsRows /\ TxPost(u, b)
        \/ \E e \in 0..MaxTotalsRows : TxDelete(u, e)
        \/ ClearPending(u)

SpecTotals == InitTotals /\ [][NextTotals]_vars

\* the raw balance of fund f: openingAmount plus its active postings, the
\* pending ones counted or not
RawBalance(f, withPending) ==
    Plus(funds[f].openingAmount,
         SumOver([i \in DOMAIN transactions |-> transactions[i].amount],
                 {i \in DOMAIN transactions :
                     /\ transactions[i].fundId = f
                     /\ transactions[i].isPosting
                     /\ ~transactions[i].deleted
                     /\ (withPending \/ ~transactions[i].isPending)}))

\* what the non-savings funds are short of, in total
Shortfall(withPending) ==
    LET ns == {f \in DOMAIN funds : ~funds[f].deleted /\ ~funds[f].isSavings}
    IN  SumOver([f \in ns |-> IF RawBalance(f, withPending) < 0
                              THEN -RawBalance(f, withPending) ELSE 0], ns)

Displayed(f, withPending) ==
    IF funds[f].isSavings
    THEN Minus(RawBalance(f, withPending), Shortfall(withPending))
    ELSE IF RawBalance(f, withPending) < 0 THEN 0
    ELSE RawBalance(f, withPending)

\* C3. Display transform of GET /api/totals: a non-savings fund is shown
\* max(0, raw); Savings is shown its raw balance minus what the non-savings
\* funds are short of; both hold for the cleared and for the with-pending
\* figure, and the raw figures are returned unchanged next to them.
C3_DisplayTransform ==
    \A u \in Users :
        LET out == GetTotals(wallets, funds, transactions, u).funds
        IN  /\ DOMAIN out = {f \in DOMAIN funds : ~funds[f].deleted}
            /\ \A f \in DOMAIN out :
                   /\ out[f].rawBalance = RawBalance(f, FALSE)
                   /\ out[f].rawBalanceWithPending = RawBalance(f, TRUE)
                   /\ out[f].balance = Displayed(f, FALSE)
                   /\ out[f].balanceWithPending = Displayed(f, TRUE)

\* both regular funds are overspent with pending rows counted, one of them
\* by cleared rows too, so the two displayed Savings figures differ from
\* each other and from the raw ones
C3_Witness ==
    /\ RawBalance(2, TRUE) < 0
    /\ RawBalance(3, TRUE) < 0
    /\ RawBalance(2, FALSE) < 0
    /\ RawBalance(3, FALSE) >= 0
    /\ Shortfall(TRUE) > Shortfall(FALSE)
    /\ last.op = "txPost"

-----------------------------------------------------------------------------
(* SpecIncome: incomes into two wallets, split over Savings and two regular *)
(* funds that start with pulls of 30 and of 20 or 0 and whose pulls change  *)

\* 1000 splits without rounding; 190 at a single pull of 30 does not
IncomeTotals == {1000, 190}

IncomePostBodies ==
    {IncomeBody(1, "undefined", w, a) : w \in {1, 2}, a \in IncomeTotals}

\* an edit of the amount alone, and one of the date and the wallet too
IncomePatchBodies ==
    {IncomeBody(0, "undefined", 1, a) : a \in IncomeTotals}
    \cup {IncomeBody(2, "undefined", 2, a) : a \in IncomeTotals}

InitIncome ==
    /\ wallets = <<NewWallet(1, 0), NewWallet(1, 0)>>
    /\ \E p3 \in {20, 0, 70, 80} :
           funds = <<NewFund(1, TRUE, 0, 0), NewFund(1, FALSE, 30, 0),
                     NewFund(1, FALSE, p3, 0)>>
    /\ transactions = <<>>
    /\ last = Resp("import", 200, Null)
    /\ snap = NoSnap
    /\ req = Idle
    /\ calls = NoCalls

NextIncome ==
    \E u \in Users :
        \/ \E f \in 1..MaxIncomeFunds, p \in {0, 60} : FundSetPull(u, f, p)
        \/ \E b \in IncomePostBodies : TxPost(u, b)
        \/ \E e \in RowIds, b \in IncomePatchBodies : TxPatch(u, e, b)
        \/ \E e \in RowIds : TxDelete(u, e)

SpecIncome == InitIncome /\ [][NextIncome]_vars

\* the live allocation postings of event e over the rows txs: the rows under
\* e that carry an incomePull
AllocationPostings(txs, e) ==
    {i \in DOMAIN txs : /\ txs[i].parentId = e
                        /\ ~txs[i].deleted
                        /\ txs[i].isPosting
                        /\ txs[i].incomePull # NoPull}

\* the handler that ran last wrote event last.id as an income and answered 200
IncomeWritten(op) ==
    /\ last.op = op
    /\ last.status = 200
    /\ last.amount > 0
    /\ AllocationPostings(transactions, last.id) # {}

\* C2. Right after an income is created, and after every successful income
\* edit, the amounts of the event's live allocation postings sum exactly to
\* the total of the request.  The allocations are doubles, so the remainder
\* stored for Savings and the sum of the rows are both rounded, and the sum
\* can miss the total.
C2_AllocationsSumToTotal ==
    (IncomeWritten("txPost") \/ IncomeWritten("txPatch")) =>
        SumAmount(transactions, AllocationPostings(transactions, last.id))
            = last.amount

\* the live non-savings funds an income is split over
PulledFunds == {f \in DOMAIN funds : /\ ~funds[f].deleted
                                     /\ ~funds[f].isSavings
                                     /\ funds[f].pullPercentage > 0}

SavingsFunds == {f \in DOMAIN funds : ~funds[f].deleted /\ funds[f].isSavings}

\* the rows under event e, deleted or not
RowsUnder(e) == {i \in DOMAIN transactions : transactions[i].parentId = e}

\* the postings createEvent(income) writes under the parent row last.id
C6_Postings ==
    LET kids == RowsUnder(last.id)
        of(f) == {i \in kids : transactions[i].fundId = f}
    IN  /\ transactions[last.id].parentId = Null
        /\ ~transactions[last.id].isPosting
        /\ \A f \in PulledFunds :
               /\ Cardinality(of(f)) = 1
               /\ \A i \in of(f) :
                      /\ transactions[i].amount
                            = Over(Times(last.amount, funds[f].pullPercentage), 100)
                      /\ transactions[i].incomePull = funds[f].pullPercentage
        /\ Cardinality(SavingsFunds) = 1
        /\ \A f \in SavingsFunds :
               /\ Cardinality(of(f)) = 1
               /\ \A i \in of(f) :
                      transactions[i].incomePull
                          = 100 - SumOver([g \in PulledFunds |->
                                              funds[g].pullPercentage], PulledFunds)
        /\ \A i \in kids :
               /\ transactions[i].fundId \in PulledFunds \cup SavingsFunds
               /\ transactions[i].isPosting
               /\ ~transactions[i].deleted
               /\ transactions[i].walletId = last.walletId
        /\ SumOver([i \in kids |-> transactions[i].incomePull], kids) = 100

\* the instance of the specification: 1000 at pulls of 30 and 20
C6_Example ==
    (/\ last.amount = 1000
     /\ PulledFunds = {2, 3}
     /\ funds[2].pullPercentage = 30
     /\ funds[3].pullPercentage = 20)
        => \E x, y, z \in RowsUnder(last.id) :
               /\ RowsUnder(last.id) = {x, y, z}
               /\ transactions[x].fundId = 2 /\ transactions[x].amount = 300
               /\ transactions[y].fundId = 3 /\ transactions[y].amount = 200
               /\ transactions[z].fundId = 1 /\ transactions[z].amount = 500

\* the with-pending balance of the wallet of the income rises by the total
C6_WalletRise ==
    GetTotals(wallets, funds, transactions, 1).wallets[last.walletId].balanceWithPending
        = snap.totals[1].wallets[last.walletId].balanceWithPending + last.amount

\* C6. createEvent(income, wallet W, total T) inserts, under one parent row,
\* one posting per non-savings fund with a pull p > 0, of amount T * p / 100
\* and incomePull p, and one Savings posting of incomePull 100 - pullSum;
\* each of them has walletId W, the incomePull values sum to 100, and W's
\* with-pending balance rises by exactly T (1000 at pulls 30 and 20 is
\* posted as 300, 200 and 500).  The rise is the rounded sum of rounded
\* postings, which can miss T.
C6_IncomeCreate ==
    (last.op = "txPost" /\ last.status = 200 /\ last.amount > 0) =>
        /\ C6_Postings
        /\ C6_Example
        /\ C6_WalletRise

\* an income edit is the step being taken, on an event with allocations
IncomeEditStep ==
    /\ last'.op = "txPatch"
    /\ last'.status = 200
    /\ last'.amount > 0
    /\ AllocationPostings(transactions, last'.id) # {}

\* C5. An income edit (amount, date, wallet) leaves the live allocation
\* postings of the event in place with the incomePull stored on them, and
\* gives every non-savings one the amount newTotal * storedIncomePull / 100;
\* a change of a fund's pullPercentage touches no row of transactions, so
\* the pulls of the funds at the time of the edit play no part.
C5_EditUsesStoredPull ==
    [][ /\ last'.op = "fundSetPull" => UNCHANGED transactions
        /\ IncomeEditStep =>
              /\ AllocationPostings(transactions', last'.id)
                     = AllocationPostings(transactions, last'.id)
              /\ \A i \in AllocationPostings(transactions, last'.id) :
                     /\ transactions'[i].incomePull = transactions[i].incomePull
                     /\ transactions'[i].fundId = transactions[i].fundId
                     /\ transactions'[i].walletId = last'.walletId
                     /\ ~funds[transactions[i].fundId].isSavings =>
                            transactions'[i].amount
                               = Over(Times(last'.amount,
                                            transactions[i].incomePull), 100)
      ]_vars

\* an income created at pulls of 30 and 20 has been edited to another total
\* and another wallet after both pulls were changed: its postings carry the
\* stored pulls, which differ from the pulls of their funds
C5_Witness ==
    /\ IncomeWritten("txPatch")
    /\ last.walletId = 2
    /\ \E i, j \in AllocationPostings(transactions, last.id) :
           /\ transactions[i].fundId = 2
           /\ transactions[i].incomePull = 30
           /\ funds[2].pullPercentage = 60
           /\ transactions[i].amount = 57
           /\ transactions[j].fundId = 3
           /\ transactions[j].incomePull = 20
           /\ funds[3].pullPercentage = 0

-----------------------------------------------------------------------------
(* SpecAtomic: POST /api/transactions taken statement by statement, with    *)
(* reads between the statements, on the ledger of Spec                      *)

AtomicPostBodies ==
    {IncomeBody(1, "undefined", 1, 10),
     LinesBody(1, "undefined", <<Expense(Null)>>),
     LinesBody(1, "false", <<Expense(Null), Credit>>),
     LinesBody(1, "undefined", <<>>)}

NextAtomic ==
    \E u \in Users :
        \/ \E b \in AtomicPostBodies : PostBegin(u, b)
        \/ PostInsertChildren(u)
        \/ PostInsertFails(u)
        \/ TxList(u)
        \/ \E e \in RowIds : TxDelete(u, e)
        \/ ClearPending(u)

SpecAtomic == Init /\ [][NextAtomic]_vars

\* a live parent row with no live row under it
ParentWithoutChildren(e) ==
    /\ Live(e)
    /\ transactions[e].parentId = Null
    /\ ~transactions[e].isPosting
    /\ LiveChildren(e) = {}

\* C10. Creating an event is atomic: no reachable state holds a parent row
\* whose postings are missing, neither between the statements of POST
\* /api/transactions, where a listing can read it, nor after the request
\* has answered an error.  POST inserts the parent and the rows under it in
\* two statements outside any transaction.
C10_CreateAtomic ==
    /\ \A e \in DOMAIN transactions : ~ParentWithoutChildren(e)
    /\ last.op = "txList" =>
           \A e \in DOMAIN last.events :
               last.events[e].isPosting \/ last.events[e].children # {}

-----------------------------------------------------------------------------
(* The overdraft revision of the event routes.  Its funds carry a kind      *)
(* (income, savings, regular) and the share the income fund feeds them; its *)
(* rows carry a status (posted, void) and a postingKind; its handlers run   *)
(* their statements one by one outside any transaction.                     *)

\* a fund row; feedPercentage is the row of fund_feeds from the income fund
\* to this fund, NoPull when there is none
KindFund(u, kind, feedPercentage, openingAmount) ==
    [userId |-> u, kind |-> kind, feedPercentage |-> feedPercentage,
     openingAmount |-> openingAmount, deleted |-> FALSE]

\* a row inserted with status "posted"
PostedRow(u, parentId, occurredAt, description, isPosting, isPending, incomePull, walletId, fundId, amount, postingKind) ==
    [userId |-> u, parentId |-> parentId, occurredAt |-> occurredAt,
     description |-> description, status |-> "posted",
     isPosting |-> isPosting, isPending |-> isPending,
     incomePull |-> incomePull, walletId |-> walletId, fundId |-> fundId,
     amount |-> amount, postingKind |-> postingKind, deleted |-> FALSE]

\* the rows a balance of the overdraft revision counts
PostedPostings(txs, u) ==
    {i \in DOMAIN txs : /\ txs[i].userId = u
                        /\ txs[i].status = "posted"
                        /\ txs[i].isPosting
                        /\ ~txs[i].deleted}

\* openingAmount + SUM(amount) over the fund's posted postings up to occurredAt
getFundBalanceAsOf(fs, txs, u, fundId, occurredAt) ==
    Plus(fs[fundId].openingAmount,
         SumAmount(txs, {i \in PostedPostings(txs, u) :
                            /\ txs[i].fundId = fundId
                            /\ txs[i].occurredAt <= occurredAt}))

\* what the fund still owes Savings: its advances less its repayments
getOverdraftDebtAsOf(txs, u, fundId, occurredAt) ==
    Max(0, SumAmount(txs, {i \in PostedPostings(txs, u) :
                              /\ txs[i].fundId = fundId
                              /\ txs[i].occurredAt <= occurredAt
                              /\ txs[i].postingKind \in
                                     {"overdraft_advance", "overdraft_repayment"}}))

\* userFunds.find((f) => f.kind === kind)?.id
systemFund(fs, u, kind) ==
    LET S == {f \in OwnedFunds(fs, u) : fs[f].kind = kind}
    IN  IF S = {} THEN Null ELSE CHOOSE f \in S : \A g \in S : f <= g

\* the cache a request keeps of the balances it has read or left
cached(cache, fundId, read) ==
    IF fundId \in DOMAIN cache THEN cache[fundId] ELSE read

\* the rows the loop over the lines inserts for one line: the line, and when
\* it leaves a regular fund below zero the pair that moves the deficit to
\* Savings; advance is the postingKind the pair is tagged with
overspendRows(fs, u, pid, occurredAt, line, isPending, balanceBefore, savingsFundId, advance) ==
    LET row == PostedRow(u, pid, occurredAt, "null", TRUE, isPending, NoPull,
                         line.walletId, line.fundId, line.amount, "null")
        balanceAfter == Plus(balanceBefore, line.amount)
        deficit == -balanceAfter
    IN  IF line.fundId # Null /\ fs[line.fundId].kind = "regular"
           /\ balanceAfter < 0
        THEN <<row,
               PostedRow(u, pid, occurredAt, "null", TRUE, isPending, NoPull,
                         Null, line.fundId, deficit, advance),
               PostedRow(u, pid, occurredAt, "null", TRUE, isPending, NoPull,
                         Null, savingsFundId, -deficit, advance)>>
        ELSE <<row>>

\* fundBalanceCache.set(line.fundId, balanceAfter < 0 ? 0 : balanceAfter)
balanceCached(cache, fs, line, balanceBefore) ==
    IF line.fundId # Null /\ fs[line.fundId].kind = "regular"
    THEN (line.fundId :> Max(0, Plus(balanceBefore, line.amount))) @@ cache
    ELSE cache

\* the loop of POST over the parsed lines: each line reads the balance of its
\* regular fund (or takes it from the cache) and inserts its rows
RECURSIVE insertLines(_, _, _, _, _, _, _, _)
insertLines(fs, txs, u, pid, occurredAt, lines, eventIsPending, cache) ==
    IF lines = <<>> THEN txs
    ELSE
        LET line == Head(lines)
            balanceBefore ==
                IF line.fundId # Null /\ fs[line.fundId].kind = "regular"
                THEN cached(cache, line.fundId,
                            getFundBalanceAsOf(fs, txs, u, line.fundId, occurredAt))
                ELSE 0
            rows == overspendRows(fs, u, pid, occurredAt, line,
                                  PendingOr(line.isPending, eventIsPending),
                                  balanceBefore, systemFund(fs, u, "savings"),
                                  "null")
        IN  insertLines(fs, txs \o rows, u, pid, occurredAt, Tail(lines),
                        eventIsPending,
                        balanceCached(cache, fs, line, balanceBefore))

\* the rows of fund_feeds from the income fund, Savings left out
feedPulls(fs, savingsFundId) ==
    SortedSeq({f \in DOMAIN fs : fs[f].feedPercentage # NoPull /\ f # savingsFundId})

\* the postings of an income: the deposit into the wallet, the share of
\* every fed fund and the remainder for Savings, the last two without wallet
feedPostingRows(fs, u, pid, occurredAt, isPending, walletId, amount, savingsFundId) ==
    LET np     == feedPulls(fs, savingsFundId)
        allocs == [k \in DOMAIN np |-> allocated(amount, fs[np[k]].feedPercentage)]
    IN  <<PostedRow(u, pid, occurredAt, "null", TRUE, isPending, NoPull,
                    walletId, Null, amount, "null")>>
        \o [k \in DOMAIN np |->
               PostedRow(u, pid, occurredAt, "null", TRUE, isPending, NoPull,
                         Null, np[k], allocs[k], "null")]
        \o <<PostedRow(u, pid, occurredAt, "null", TRUE, isPending, NoPull,
                       Null, savingsFundId,
                       savingsAllocated(amount, SumSeq(allocs)), "null")>>

\* What the overdraft revision of POST does with a body: the status it
\* answers and the table it leaves.  The parent row is inserted first.
OverdraftPostPlan(ws, fs, txs, u, body) ==
    LET pid == Len(txs) + 1
        eventIsPending == PendingOr(body.isPending, TRUE)
        parent == PostedRow(u, Null, body.occurredAt,
                            DescOrNull(body.description), FALSE,
                            eventIsPending, NoPull, Null, Null, 0, "null")
        incomeFundId == systemFund(fs, u, "income")
        savingsFundId == systemFund(fs, u, "savings")
        np == feedPulls(fs, savingsFundId)
        Fail(st) == [status |-> st, txs |-> Append(txs, parent)]
    IN
    IF body.occurredAt = 0 THEN [status |-> 400, txs |-> txs]
    ELSE IF incomeFundId = Null \/ savingsFundId = Null THEN Fail(400)
    ELSE IF body.type = "income" THEN
        IF body.walletId = Null THEN Fail(400)
        ELSE IF body.amount <= 0 THEN Fail(400)
        ELSE IF body.walletId \notin OwnedWallets(ws, u) THEN Fail(404)
        ELSE IF SumSeq([k \in DOMAIN np |-> fs[np[k]].feedPercentage]) > 100
             THEN Fail(400)
        ELSE [status |-> 200,
              txs |-> Append(txs, parent)
                      \o feedPostingRows(fs, u, pid, body.occurredAt,
                                         eventIsPending, body.walletId,
                                         body.amount, savingsFundId)]
    ELSE IF ~body.hasLines \/ Len(body.lines) = 0 THEN Fail(400)
    ELSE IF \E k \in DOMAIN body.lines :
                \/ body.lines[k].amount = 0
                \/ body.lines[k].walletId = Null /\ body.lines[k].fundId = Null
         THEN Fail(400)
    ELSE IF ~(neededWalletIds(body.lines) \subseteq OwnedWallets(ws, u))
         THEN Fail(400)
    ELSE IF ~(neededFundIds(body.lines) \subseteq OwnedFunds(fs, u))
         THEN Fail(400)
    ELSE [status |-> 200,
          txs |-> insertLines(fs, Append(txs, parent), u, pid, body.occurredAt,
                              body.lines, eventIsPending, <<>>)]

Min(a, b) == IF a <= b THEN a ELSE b

\* the pair that repays `repay` of the debt of fundId to Savings
repaymentRows(u, pid, occurredAt, isPending, fundId, savingsFundId, repay) ==
    <<PostedRow(u, pid, occurredAt, "null", TRUE, isPending, NoPull,
                Null, fundId, -repay, "overdraft_repayment"),
      PostedRow(u, pid, occurredAt, "null", TRUE, isPending, NoPull,
                Null, savingsFundId, repay, "overdraft_repayment")>>

\* update transactions set status = 'void' where userId = u and parentId = eventId
VoidedNothing(txs, u, eventId) == txs

VoidedChildren(txs, u, eventId) ==
    [i \in DOMAIN txs |->
        IF txs[i].userId = u /\ txs[i].parentId = eventId
        THEN [txs[i] EXCEPT !.status = "void"] ELSE txs[i]]

\* the loop of the income rebuild over the pulls of the snapshot: the share
\* of every fund and, for a regular fund in debt, the repayment pair
RECURSIVE rebuildPulls(_, _, _, _, _, _, _, _, _, _)
rebuildPulls(fs, txs, u, eventId, occurredAt, isPending, walletId, amount, pulls, cache) ==
    IF pulls = <<>> THEN txs
    ELSE
        LET pull == Head(pulls)
            f == pull.destFundId
            share == allocated(amount, pull.percentage)
            row == PostedRow(u, eventId, occurredAt, "null", TRUE, isPending,
                             pull.percentage, walletId, f, share, "null")
            t1 == Append(txs, row)
            owes == /\ f \in OwnedFunds(fs, u)
                    /\ fs[f].kind = "regular"
                    /\ share > 0
            debtBefore == IF owes
                          THEN cached(cache, f,
                                      getOverdraftDebtAsOf(t1, u, f, occurredAt))
                          ELSE 0
            repay == Min(share, debtBefore)
        IN  IF repay > 0
            THEN rebuildPulls(fs,
                     t1 \o repaymentRows(u, eventId, occurredAt, isPending, f,
                                         systemFund(fs, u, "savings"), repay),
                     u, eventId, occurredAt, isPending, walletId, amount,
                     Tail(pulls), (f :> Minus(debtBefore, repay)) @@ cache)
            ELSE rebuildPulls(fs, t1, u, eventId, occurredAt, isPending,
                              walletId, amount, Tail(pulls), cache)

\* the loop of the rebuild over several lines: a credit to a regular fund in
\* debt first repays, then every line is inserted as POST inserts it
RECURSIVE rebuildLines(_, _, _, _, _, _, _, _, _)
rebuildLines(fs, txs, u, eventId, occurredAt, lines, eventIsPending, balances, debts) ==
    IF lines = <<>> THEN txs
    ELSE
        LET line == Head(lines)
            f == line.fundId
            isPending == PendingOr(line.isPending, eventIsPending)
            regular == f # Null /\ fs[f].kind = "regular"
            debtBefore == IF regular /\ line.amount > 0
                          THEN cached(debts, f,
                                      getOverdraftDebtAsOf(txs, u, f, occurredAt))
                          ELSE 0
            repay == Min(line.amount, debtBefore)
            t1 == IF repay > 0
                  THEN txs \o repaymentRows(u, eventId, occurredAt, isPending, f,
                                            systemFund(fs, u, "savings"), repay)
                  ELSE txs
            debts1 == IF repay > 0
                      THEN (f :> Minus(debtBefore, repay)) @@ debts ELSE debts
            balanceBefore ==
                IF regular
                THEN cached(balances, f,
                            getFundBalanceAsOf(fs, t1, u, f, occurredAt))
                ELSE 0
            rows == overspendRows(fs, u, eventId, occurredAt, line, isPending,
                                  balanceBefore, systemFund(fs, u, "savings"),
                                  "overdraft_advance")
        IN  rebuildLines(fs, t1 \o rows, u, eventId, occurredAt, Tail(lines),
                         eventIsPending,
                         balanceCached(balances, fs, line, balanceBefore), debts1)

\* What PATCH of the overdraft revision does with a body: the status it
\* answers and the table it leaves.  A rebuild resets the root row and voids
\* the rows under it before it looks at the rest of the body.
OverdraftPatchPlan(ws, fs, txs, u, eventId, body) ==
    LET Fail(st) == [status |-> st, txs |-> txs]
        savingsFundId == systemFund(fs, u, "savings")
    IN
    IF systemFund(fs, u, "income") = Null \/ savingsFundId = Null THEN Fail(400)
    ELSE IF eventId = Null THEN Fail(400)
    ELSE IF ~LiveRoot(txs, u, eventId) THEN Fail(404)
    ELSE
    LET event == txs[eventId]
        hasRebuildChanges == \/ body.type # "none"
                             \/ body.hasLines
                             \/ body.walletId # Null
                             \/ body.amount # 0
        hasMetaChanges == \/ body.occurredAt # 0
                          \/ body.description # "undefined"
                          \/ body.isPending # "undefined"
        occurredAt == IF body.occurredAt = 0 THEN event.occurredAt
                      ELSE body.occurredAt
        description == IF body.description = "undefined"
                       THEN event.description ELSE body.description
        eventIsPending == PendingOr(body.isPending, event.isPending)
        under == {i \in DOMAIN txs : txs[i].userId = u /\ txs[i].parentId = eventId}
    IN
    IF ~hasRebuildChanges /\ hasMetaChanges THEN
        [status |-> 200,
         txs |-> [i \in DOMAIN txs |->
             IF i = eventId
             THEN [txs[i] EXCEPT !.occurredAt = occurredAt,
                                 !.description = description,
                                 !.isPending = eventIsPending]
             ELSE IF i \in under
             THEN [txs[i] EXCEPT !.occurredAt = occurredAt,
                                 !.isPending = eventIsPending]
             ELSE txs[i]]]
    ELSE
    LET incomeSnapshot ==
            SortedSeq({i \in PostedPostings(txs, u) :
                          /\ txs[i].parentId = eventId
                          /\ txs[i].incomePull # NoPull})
        reset == [txs EXCEPT ![eventId] =
                     [@ EXCEPT !.occurredAt = occurredAt,
                               !.description = description,
                               !.isPending = eventIsPending,
                               !.isPosting = FALSE,
                               !.walletId = Null,
                               !.fundId = Null,
                               !.amount = 0]]
        voided == VoidedChildren(reset, u, eventId)
        Stop(st) == [status |-> st, txs |-> voided]
        lines == body.lines
    IN
    IF body.type = "income" THEN
        LET savingsSnap == {k \in DOMAIN incomeSnapshot :
                               txs[incomeSnapshot[k]].fundId = savingsFundId}
            pullIdx == SortedSeq({k \in DOMAIN incomeSnapshot :
                          /\ txs[incomeSnapshot[k]].fundId # Null
                          /\ txs[incomeSnapshot[k]].fundId # savingsFundId})
            normalizedPullsOf ==
                [j \in DOMAIN pullIdx |->
                    [destFundId |-> txs[incomeSnapshot[pullIdx[j]]].fundId,
                     percentage |-> txs[incomeSnapshot[pullIdx[j]]].incomePull]]
            pullTotal == SumSeq([j \in DOMAIN normalizedPullsOf |->
                                    normalizedPullsOf[j].percentage])
            allocatedTotal == SumSeq([j \in DOMAIN normalizedPullsOf |->
                                  allocated(body.amount,
                                            normalizedPullsOf[j].percentage)])
        IN
        IF body.walletId = Null THEN Stop(400)
        ELSE IF body.amount <= 0 THEN Stop(400)
        ELSE IF body.walletId \notin OwnedWallets(ws, u) THEN Stop(404)
        ELSE IF incomeSnapshot = <<>> THEN Stop(400)
        ELSE IF savingsSnap = {} THEN Stop(400)
        ELSE IF pullTotal > 100 THEN Stop(400)
        ELSE
            [status |-> 200,
             txs |-> Append(
                 rebuildPulls(fs, voided, u, eventId, occurredAt,
                              eventIsPending, body.walletId, body.amount,
                              normalizedPullsOf, <<>>),
                 PostedRow(u, eventId, occurredAt, "null", TRUE, eventIsPending,
                           txs[incomeSnapshot[CHOOSE k \in savingsSnap :
                                   \A j \in savingsSnap : k <= j]].incomePull,
                           body.walletId, savingsFundId,
                           savingsAllocated(body.amount, allocatedTotal),
                           "null"))]
    ELSE IF ~body.hasLines \/ Len(lines) = 0 THEN Stop(400)
    ELSE IF \E k \in DOMAIN lines :
                \/ lines[k].amount = 0
                \/ lines[k].walletId = Null /\ lines[k].fundId = Null
         THEN Stop(400)
    ELSE IF ~(neededWalletIds(lines) \subseteq OwnedWallets(ws, u)) THEN Stop(400)
    ELSE IF ~(neededFundIds(lines) \subseteq OwnedFunds(fs, u)) THEN Stop(400)
    ELSE IF Len(lines) = 1 THEN
        LET line == lines[1]
            f == line.fundId
            isPending == PendingOr(line.isPending, eventIsPending)
            regular == f # Null /\ fs[f].kind = "regular"
            row == PostedRow(u, eventId, occurredAt, "null", TRUE, isPending,
                             NoPull, line.walletId, f, line.amount, "null")
            repay == IF regular /\ line.amount > 0
                     THEN Min(line.amount,
                              getOverdraftDebtAsOf(voided, u, f, occurredAt))
                     ELSE 0
            balanceBefore == IF regular
                             THEN getFundBalanceAsOf(fs, voided, u, f, occurredAt)
                             ELSE 0
        IN
        IF repay > 0
        THEN [status |-> 200,
              txs |-> Append(voided, row)
                      \o repaymentRows(u, eventId, occurredAt, isPending, f,
                                       savingsFundId, repay)]
        ELSE IF regular /\ Plus(balanceBefore, line.amount) < 0
        THEN [status |-> 200,
              txs |-> voided \o overspendRows(fs, u, eventId, occurredAt, line,
                                              isPending, balanceBefore,
                                              savingsFundId, "overdraft_advance")]
        ELSE [status |-> 200,
              txs |-> [voided EXCEPT ![eventId] =
                          [@ EXCEPT !.isPosting = TRUE,
                                    !.isPending = isPending,
                                    !.walletId = line.walletId,
                                    !.fundId = f,
                                    !.amount = line.amount]]]
    ELSE [status |-> 200,
          txs |-> rebuildLines(fs, voided, u, eventId, occurredAt, lines,
                               eventIsPending, <<>>, <<>>)]

\* POST /api/transactions of the overdraft revision, run to its response
OverdraftPost(u, body) ==
    \E plan \in {OverdraftPostPlan(wallets, funds, transactions, u, body)} :
        /\ Len(plan.txs) <= MaxLedgerRows
        /\ transactions' = plan.txs
        /\ last' = Resp("overdraftPost", plan.status,
                        IF Len(plan.txs) > Len(transactions)
                        THEN Len(transactions) + 1 ELSE Null)
        /\ UNCHANGED <<wallets, funds, snap, req, calls>>

\* PATCH /api/transactions/:id of the overdraft revision
OverdraftPatchWithin(u, eventId, body, maxRows) ==
    \E plan \in {OverdraftPatchPlan(wallets, funds, transactions, u, eventId, body)} :
        /\ Len(plan.txs) <= maxRows
        /\ transactions' = plan.txs
        /\ last' = Resp("overdraftPatch", plan.status, eventId)
        /\ UNCHANGED <<wallets, funds, snap, req, calls>>

OverdraftPatch(u, eventId, body) == OverdraftPatchWithin(u, eventId, body, MaxLedgerRows)

\* DELETE /api/transactions/:id of the overdraft revision: the event and the
\* rows under it are voided
OverdraftDelete(u, eventId) ==
    /\ IF eventId = Null
       THEN /\ last' = Resp("overdraftDelete", 400, eventId)
            /\ UNCHANGED transactions
       ELSE IF ~LiveRoot(transactions, u, eventId)
       THEN /\ last' = Resp("overdraftDelete", 404, eventId)
            /\ UNCHANGED transactions
       ELSE /\ transactions' =
                  [i \in DOMAIN transactions |->
                      IF /\ transactions[i].userId = u
                         /\ (i = eventId \/ transactions[i].parentId = eventId)
                      THEN [transactions[i] EXCEPT !.status = "void"]
                      ELSE transactions[i]]
            /\ last' = Resp("overdraftDelete", 200, eventId)
    /\ UNCHANGED <<wallets, funds, snap, req, calls>>

-----------------------------------------------------------------------------
(* SpecOverdraft: the event handlers of the overdraft revision on a ledger  *)
(* of one wallet, the income fund, Savings and a regular fund that is fed   *)
(* 30 percent and opens with 1, empty or holding one migrated income of 10  *)

\* the income of 10 as the migration leaves it: postings with their pulls
MigratedIncome ==
    <<PostedRow(1, Null, 1, "null", FALSE, FALSE, NoPull, Null, Null, 0, "null"),
      PostedRow(1, 1, 1, "null", TRUE, FALSE, 30, 1, 3, 3, "null"),
      PostedRow(1, 1, 1, "null", TRUE, FALSE, 70, 1, 2, 7, "null")>>

\* a line on wallet 1 and the regular fund
Spend(amount) == Line(Null, 1, 3, amount, "undefined")

OverdraftPostBodies ==
    {LinesBody(1, "false", <<Spend(a)>>) : a \in {-2, -130, 1}}
    \cup {LinesBody(2, "false", <<Spend(-2), Spend(-1)>>),
          LinesBody(2, "false", <<>>),
          IncomeBody(2, "false", 1, 10)}

OverdraftPatchBodies ==
    {MetaBody(2, "false"), MetaBody(0, "undefined"),
     IncomeBody(0, "undefined", 1, 20), IncomeBody(0, "undefined", Null, 20),
     LinesBody(0, "undefined", <<Spend(-2)>>),
     LinesBody(0, "undefined", <<Spend(1), Spend(-2)>>),
     LinesBody(0, "undefined", <<Line(Null, 1, 4, -1, "undefined")>>)}

InitOverdraft ==
    /\ wallets = <<NewWallet(1, 0)>>
    /\ funds = <<KindFund(1, "income", NoPull, 0), KindFund(1, "savings", NoPull, 0),
                 KindFund(1, "regular", 30, 1)>>
    /\ transactions \in {<<>>, MigratedIncome}
    /\ last = Resp("import", 200, Null)
    /\ snap = NoSnap
    /\ req = Idle
    /\ calls = NoCalls

NextOverdraft ==
    \E u \in Users :
        \/ \E b \in OverdraftPostBodies :
               /\ Cardinality({i \in DOMAIN transactions :
                                  transactions[i].parentId = Null}) < MaxLedgerEvents
               /\ OverdraftPost(u, b)
        \/ \E e \in 0..MaxLedgerRows, b \in OverdraftPatchBodies :
               OverdraftPatch(u, e, b)
        \/ \E e \in 0..MaxLedgerRows : OverdraftDelete(u, e)

SpecOverdraft == InitOverdraft /\ [][NextOverdraft]_vars

\* the rows of event e: its root and the rows under it
EventRows(txs, e) ==
    {i \in DOMAIN txs : i = e \/ txs[i].parentId = e}

\* C11. A PATCH /api/transactions/:id that answers an error (missing
\* walletId, non-positive income amount, missing lines, unknown wallet or
\* fund, missing income pull snapshot) leaves every row of the event as it
\* was and adds none, so that no balance moves.  The overdraft revision
\* resets the root row and voids the rows under it before it validates.
C11_FailedEditKeepsPostings ==
    [][ (last'.op = "overdraftPatch" /\ last'.status # 200) =>
            /\ Len(transactions') = Len(transactions)
            /\ \A i \in EventRows(transactions, last'.id) :
                   transactions'[i] = transactions[i] ]_vars

-----------------------------------------------------------------------------
(* SpecDeleteRace: DELETE /api/wallets, DELETE /api/funds and POST          *)
(* /api/transactions of two connections taken statement by statement.  No   *)
(* handler of the three opens a transaction or locks a row, so the reads of *)
(* one request and the write that follows them admit the statements of      *)
(* another request in between.                                              *)

Connections == {1, 2}

\* the connections with no request in flight
FreeConnections == Connections \ DOMAIN calls

\* calls with the request of connection c added / answered
Called(c, call) == [k \in DOMAIN calls \cup {c} |-> IF k = c THEN call ELSE calls[k]]
Answered(c) == [k \in DOMAIN calls \ {c} |-> calls[k]]

\* DELETE /api/wallets up to its update: the two selects and the balance test
WalletDeleteRead(c, u, walletId) ==
    /\ c \in FreeConnections
    /\ IF walletId = Null
       THEN last' = Resp("walletDelete", 400, walletId) /\ UNCHANGED calls
       ELSE IF walletId \notin OwnedWallets(wallets, u)
       THEN last' = Resp("walletDelete", 404, walletId) /\ UNCHANGED calls
       ELSE IF HasBalance(WalletBalanceWithPending(wallets, transactions, u, walletId))
       THEN last' = Resp("walletDelete", 400, walletId) /\ UNCHANGED calls
       ELSE /\ calls' = Called(c, [op |-> "walletDelete", userId |-> u,
                                   id |-> walletId, body |-> MetaBody(0, "undefined"),
                                   ws |-> <<>>, fs |-> <<>>])
            /\ UNCHANGED last
    /\ UNCHANGED <<wallets, funds, transactions, snap, req>>

\* its update, where id = walletId, and its response
WalletDeleteWrite(c) ==
    /\ c \in DOMAIN calls
    /\ calls[c].op = "walletDelete"
    /\ wallets' = [wallets EXCEPT ![calls[c].id].deleted = TRUE]
    /\ last' = Resp("walletDelete", 200, calls[c].id)
    /\ calls' = Answered(c)
    /\ UNCHANGED <<funds, transactions, snap, req>>

\* DELETE /api/funds up to its update
FundDeleteRead(c, u, fundId) ==
    /\ c \in FreeConnections
    /\ IF fundId = Null
       THEN last' = Resp("fundDelete", 400, fundId) /\ UNCHANGED calls
       ELSE IF fundId \notin OwnedFunds(funds, u)
       THEN last' = Resp("fundDelete", 404, fundId) /\ UNCHANGED calls
       ELSE IF isSystemFund(funds, fundId)
       THEN last' = Resp("fundDelete", 400, fundId) /\ UNCHANGED calls
       ELSE IF HasBalance(FundBalanceWithPending(funds, transactions, u, fundId))
       THEN last' = Resp("fundDelete", 400, fundId) /\ UNCHANGED calls
       ELSE /\ calls' = Called(c, [op |-> "fundDelete", userId |-> u,
                                   id |-> fundId, body |-> MetaBody(0, "undefined"),
                                   ws |-> <<>>, fs |-> <<>>])
            /\ UNCHANGED last
    /\ UNCHANGED <<wallets, funds, transactions, snap, req>>

FundDeleteWrite(c) ==
    /\ c \in DOMAIN calls
    /\ calls[c].op = "fundDelete"
    /\ funds' = [funds EXCEPT ![calls[c].id].deleted = TRUE]
    /\ last' = Resp("fundDelete", 200, calls[c].id)
    /\ calls' = Answered(c)
    /\ UNCHANGED <<wallets, transactions, snap, req>>

\* POST /api/transactions up to its insert: the body checks and the two
\* ownership selects
TxPostRead(c, u, body) ==
    /\ c \in FreeConnections
    /\ \E plan \in {PostPlan(wallets, funds, u, Len(transactions) + 1, body)} :
           IF plan.status # 200
           THEN last' = Resp("txPost", plan.status, Null) /\ UNCHANGED calls
           ELSE /\ calls' = Called(c, [op |-> "txPost", userId |-> u,
                                       id |-> Null, body |-> body,
                                       ws |-> wallets, fs |-> funds])
                /\ UNCHANGED last
    /\ UNCHANGED <<wallets, funds, transactions, snap, req>>

\* its inserts, of the rows the tables it read call for, and its response
TxPostWrite(c) ==
    /\ c \in DOMAIN calls
    /\ calls[c].op = "txPost"
    /\ \E pid \in {Len(transactions) + 1} :
       \E plan \in {PostPlan(calls[c].ws, calls[c].fs, calls[c].userId, pid,
                             calls[c].body)} :
           /\ transactions' = transactions \o plan.roots \o plan.children
           /\ last' = RespEvent("txPost", 200, pid, calls[c].body,
                                calls[c].body.type # "income",
                                calls[c].body.type = "income")
    /\ calls' = Answered(c)
    /\ UNCHANGED <<wallets, funds, snap, req>>

\* one-line events on wallet 1 and fund 2, and one on the wallet alone
RacePostBodies ==
    {LinesBody(1, "undefined", <<Line(Null, 1, f, a, "undefined")>>) :
        f \in {Null, 2}, a \in {1, -1}}

InitDeleteRace ==
    /\ wallets = <<NewWallet(1, 0)>>
    /\ funds = <<NewFund(1, TRUE, 0, 0), NewFund(1, FALSE, 0, 0)>>
    /\ transactions = <<>>
    /\ last = Resp("import", 200, Null)
    /\ snap = NoSnap
    /\ req = Idle
    /\ calls = NoCalls

NextDeleteRace ==
    \E c \in Connections, u \in Users :
        \/ \E w \in WalletIds : WalletDeleteRead(c, u, w)
        \/ WalletDeleteWrite(c)
        \/ \E f \in FundIds : FundDeleteRead(c, u, f)
        \/ FundDeleteWrite(c)
        \/ \E b \in RacePostBodies :
               /\ Len(transactions) + Cardinality(DOMAIN calls) < MaxRaceRows
               /\ TxPostRead(c, u, b)
        \/ TxPostWrite(c)

SpecDeleteRace == InitDeleteRace /\ [][NextDeleteRace]_vars

\* the rows a step inserts
InsertedRows == (DOMAIN transactions') \ (DOMAIN transactions)

\* C12. Under any interleaving of a wallet or fund DELETE with a concurrent
\* createEvent, no wallet or fund is soft-deleted while its opening amount
\* plus its active postings is non-zero, and no step inserts an active
\* posting that names a wallet or fund already soft-deleted.  DELETE reads
\* the balance and updates the row in separate statements, and POST checks
\* ownership and inserts in separate statements, with no transaction or
\* lock around either.
C12_DeleteRace ==
    /\ [](\A w \in DOMAIN wallets :
              wallets[w].deleted => WalletRawWithPending(w) = 0)
    /\ [](\A f \in DOMAIN funds :
              funds[f].deleted => FundRawWithPending(f) = 0)
    /\ [][\A i \in InsertedRows :
              /\ transactions'[i].walletId # Null =>
                     ~wallets[transactions'[i].walletId].deleted
              /\ transactions'[i].fundId # Null =>
                     ~funds[transactions'[i].fundId].deleted]_vars

-----------------------------------------------------------------------------
(* SpecBootstrap: POST /api/bootstrap of two connections taken statement by *)
(* statement, next to the fund and wallet handlers.  The run starts when    *)
(* the users row is written and the user has no fund yet; a bootstrap that  *)
(* finds the users row updates it and goes on to Savings.                   *)

\* the live Savings funds of user u
savingsFunds(fs, u) == {f \in OwnedFunds(fs, u) : fs[f].isSavings}

\* POST /api/bootstrap up to its insert: the users row, then the select of
\* the live Savings fund, limit 1
BootstrapRead(c, u) ==
    /\ c \in FreeConnections
    /\ calls' = Called(c, [op |-> "bootstrap", userId |-> u,
                           id |-> savingsFundOf(funds, u),
                           body |-> MetaBody(0, "undefined"),
                           ws |-> <<>>, fs |-> <<>>])
    /\ UNCHANGED <<wallets, funds, transactions, last, snap, req>>

\* savingsFund ?? insert, and the response
BootstrapWrite(c) ==
    /\ c \in DOMAIN calls
    /\ calls[c].op = "bootstrap"
    /\ IF calls[c].id # Null
       THEN /\ last' = Resp("bootstrap", 200, calls[c].id)
            /\ UNCHANGED funds
       ELSE /\ Len(funds) < MaxBootstrapFunds
            /\ funds' = Append(funds, NewFund(calls[c].userId, TRUE, 0, 0))
            /\ last' = Resp("bootstrap", 200, Len(funds) + 1)
    /\ calls' = Answered(c)
    /\ UNCHANGED <<wallets, transactions, snap, req>>

InitBootstrap ==
    /\ wallets = <<>>
    /\ funds = <<>>
    /\ transactions = <<>>
    /\ last = Resp("signup", 200, Null)
    /\ snap = NoSnap
    /\ req = Idle
    /\ calls = NoCalls

NextBootstrap ==
    \E c \in Connections, u \in Users :
        \/ BootstrapRead(c, u)
        \/ BootstrapWrite(c)
        \/ \E n \in BOOLEAN, o \in Openings : FundPost(u, n, o)
        \/ \E f \in 0..MaxBootstrapFunds, h \in BOOLEAN, o \in Openings :
               FundPatch(u, f, h, o)
        \/ \E f \in 0..MaxBootstrapFunds : FundDelete(u, f)

SpecBootstrap == InitBootstrap /\ [][NextBootstrap]_vars

\* C13. Every bootstrapped user has exactly one live fund with isSavings:
\* never two, and one once a POST /api/bootstrap has answered, also when
\* two bootstraps interleave between the select of the Savings fund and its
\* insert.  The select and the insert are two statements, and the funds
\* table has no unique index on (userId, isSavings).
C13_OneSavingsFund ==
    \A u \in Users :
        /\ Cardinality(savingsFunds(funds, u)) <= 1
        /\ (last.op = "bootstrap" /\ last.status = 200) =>
               Cardinality(savingsFunds(funds, u)) = 1

-----------------------------------------------------------------------------
\* C14. A DELETE /api/funds that names the user's live Savings fund answers
\* 400 whatever the balance of the fund is, and leaves the funds table, the
\* deleted mark of Savings included, as it was.
C14_SavingsNotDeletable ==
    [][ ( /\ last'.op = "fundDelete"
          /\ last'.id \in OwnedFunds(funds, 1)
          /\ funds[last'.id].isSavings )
        => /\ last'.status = 400
           /\ funds' = funds ]_vars

\* a DELETE of Savings was refused while Savings held a balance
C14_Witness ==
    /\ last.op = "fundDelete"
    /\ last.status = 400
    /\ last.id \in OwnedFunds(funds, 1)
    /\ funds[last.id].isSavings
    /\ FundRawWithPending(last.id) # 0
    /\ \E i \in DOMAIN transactions : Live(i) /\ transactions[i].fundId = last.id

-----------------------------------------------------------------------------
\* the pulls of the live non-savings funds, summed
RegularPullSum ==
    LET regs == {f \in OwnedFunds(funds, 1) : ~funds[f].isSavings}
    IN  SumOver([f \in regs |-> funds[f].pullPercentage], regs)

\* C15. createEvent(income) when the pulls of the user's live non-savings
\* funds sum to more than 100 answers 400 and inserts no row, parent or
\* posting; when they sum to at most 100 the income is accepted and every
\* fund with a pull gets a posting at its own percentage, unclamped.
C15_PullSumGuard ==
    [][ (last'.op = "txPost") =>
            IF RegularPullSum > 100
            THEN /\ last'.status = 400
                 /\ transactions' = transactions
            ELSE /\ last'.status = 200
                 /\ \A f \in PulledFunds :
                        \E i \in InsertedRows :
                            /\ transactions'[i].fundId = f
                            /\ transactions'[i].parentId = last'.id
                            /\ transactions'[i].incomePull = funds[f].pullPercentage
                            /\ transactions'[i].amount
                                  = allocated(last'.amount, funds[f].pullPercentage) ]_vars

\* an income was refused at pulls of 30 and 80
C15_Witness ==
    /\ last.op = "txPost"
    /\ last.status = 400
    /\ RegularPullSum > 100
    /\ funds[2].pullPercentage = 30
    /\ funds[3].pullPercentage = 80

-----------------------------------------------------------------------------
\* C16. An edit that changes the lines or the income amount of an event
\* never changes the amount, walletId or fundId of a posting row already
\* stored: superseded postings are soft-deleted and new values arrive in
\* new rows.  PATCH writes the new line into the posting-only root, into the
\* child a line names by transactionId, and into the allocations of an
\* income.
C16_EditKeepsStoredPostings ==
    [][ (last'.op = "txPatch" /\ last'.status = 200) =>
            \A i \in DOMAIN transactions :
                transactions[i].isPosting =>
                    /\ transactions'[i].amount = transactions[i].amount
                    /\ transactions'[i].walletId = transactions[i].walletId
                    /\ transactions'[i].fundId = transactions[i].fundId ]_vars

-----------------------------------------------------------------------------
\* a PATCH of a live event whose body holds occurredAt and isPending only
MetadataEdit(e) ==
    /\ LiveRoot(transactions, 1, e)
    /\ TxPatch(1, e, MetaBody(1, "true"))

\* C17. A PATCH whose body holds only occurredAt, description and isPending
\* succeeds on every existing event, posting-only, multi-line or income,
\* writes those fields to the root and to its active children, and leaves
\* amount, walletId, fundId and incomePull of every row, and with them every
\* with-pending balance, as they were.  On an event whose postings carry an
\* incomePull PATCH takes the income branch and answers 400 for the missing
\* walletId.
C17_MetadataOnlyEdit ==
    [][ \A e \in RowIds :
            MetadataEdit(e) =>
                /\ last'.status = 200
                /\ DOMAIN transactions' = DOMAIN transactions
                /\ transactions'[e].occurredAt = 1
                /\ transactions'[e].isPending
                /\ \A i \in LiveChildren(e) :
                       /\ transactions'[i].occurredAt = 1
                       /\ transactions'[i].isPending
                /\ \A i \in DOMAIN transactions :
                       /\ transactions'[i].amount = transactions[i].amount
                       /\ transactions'[i].walletId = transactions[i].walletId
                       /\ transactions'[i].fundId = transactions[i].fundId
                       /\ transactions'[i].incomePull = transactions[i].incomePull
                       /\ transactions'[i].isPosting = transactions[i].isPosting
                       /\ transactions'[i].deleted = transactions[i].deleted ]_vars

-----------------------------------------------------------------------------
\* the regular fund of SpecOverdraft and its Savings fund
RegularFund == systemFund(funds, 1, "regular")
SavingsFund == systemFund(funds, 1, "savings")

\* the rows a create inserts under its parent: those of the request's lines,
\* which name wallet 1, and the fund-only rows the handler adds
CreatedLines  == {i \in InsertedRows : transactions'[i].walletId # Null}
CreatedExtras == {i \in InsertedRows : /\ transactions'[i].isPosting
                                       /\ transactions'[i].walletId = Null}

\* the step is a create from lines, each of them against the regular fund
LinesCreated ==
    /\ last'.op = "overdraftPost"
    /\ last'.status = 200
    /\ CreatedLines # {}
    /\ \A l \in CreatedLines : transactions'[l].fundId = RegularFund

\* the extra rows are one pair that moves `deficit` from Savings to fund f
DeficitPair(f, deficit) ==
    \E x, y \in CreatedExtras :
        /\ CreatedExtras = {x, y}
        /\ x # y
        /\ transactions'[x].fundId = f
        /\ transactions'[x].amount = deficit
        /\ transactions'[y].fundId = SavingsFund
        /\ transactions'[y].amount = -deficit

\* C18. On create in the overdraft revision, a line against the regular
\* fund F that makes F's raw balance as of the event's occurredAt negative
\* gets exactly two extra postings under the same parent, at the same
\* occurredAt and without a wallet: +deficit on F and -deficit on Savings.
\* After the create F's raw balance as of occurredAt is exactly 0; the pair
\* touches no wallet and adds nothing to the sum of the fund balances; a
\* line that leaves F at or above zero gets no extra posting.
C18_OverdraftOnCreate ==
    [][ LinesCreated =>
            LET pid == last'.id
                at == transactions'[pid].occurredAt
                before == getFundBalanceAsOf(funds, transactions, 1,
                                             RegularFund, at)
                after == getFundBalanceAsOf(funds, transactions', 1,
                                            RegularFund, at)
            IN  /\ \A i \in CreatedExtras :
                       /\ transactions'[i].parentId = pid
                       /\ transactions'[i].occurredAt = at
                       /\ transactions'[i].status = "posted"
                /\ SumOver([i \in CreatedExtras |-> transactions'[i].amount],
                           CreatedExtras) = 0
                /\ CreatedExtras # {} => after = 0
                /\ \A l \in CreatedLines :
                       (CreatedLines = {l} /\ transactions'[l].fundId = RegularFund) =>
                           IF before + transactions'[l].amount < 0
                           THEN DeficitPair(RegularFund,
                                            -(before + transactions'[l].amount))
                           ELSE CreatedExtras = {} ]_vars

-----------------------------------------------------------------------------
(* SpecPatchRace: PATCH /api/transactions/:id with a list of lines, of two  *)
(* connections.  The handler reads the event and its children and checks    *)
(* the body outside the transaction; the transaction holds only the writes. *)

\* PATCH with lines up to its transaction: the reads and the checks
TxPatchRead(c, u, eventId, body) ==
    /\ c \in FreeConnections
    /\ body.hasLines
    /\ LiveRoot(transactions, u, eventId)
    /\ ~isIncomeLikeEvent(transactions, u, eventId)
    /\ \E plan \in {PatchPlan(wallets, funds, transactions, u, eventId, body)} :
           IF plan.status # 200
           THEN last' = Resp("txPatch", plan.status, eventId) /\ UNCHANGED calls
           ELSE /\ calls' = Called(c,
                      [op |-> "txPatch", userId |-> u, id |-> eventId,
                       body |-> body, event |-> transactions[eventId],
                       existingChildIds |-> childPostings(transactions, u, eventId)])
                /\ UNCHANGED last
    /\ UNCHANGED <<wallets, funds, transactions, snap, req>>

\* its transaction, from what the request read, and its response
TxPatchWrite(c) ==
    /\ c \in DOMAIN calls
    /\ calls[c].op = "txPatch"
    /\ LET call == calls[c]
           body == call.body
       IN  /\ transactions' =
                  rebuildTransaction(transactions, call.userId, call.id,
                      IF body.occurredAt = 0 THEN call.event.occurredAt
                      ELSE body.occurredAt,
                      IF body.description = "undefined"
                      THEN call.event.description ELSE body.description,
                      PendingOr(body.isPending, call.event.isPending),
                      body.lines, call.event.isPosting, call.existingChildIds)
           /\ last' = RespEvent("txPatch", 200, call.id, body, TRUE, FALSE)
    /\ Len(transactions') <= MaxPatchRaceRows
    /\ calls' = Answered(c)
    /\ UNCHANGED <<wallets, funds, snap, req>>

\* expenses of 1, 2 and 3 from wallet 1 and fund 2
Spent(amount) == Line(Null, 1, 2, amount, "undefined")

\* the line lists of the edits: two lines, two other lines, one line
RaceLineLists ==
    {<<Spent(-1), Spent(-2)>>, <<Spent(-3), Spent(-1)>>, <<Spent(-2)>>}

InitPatchRace ==
    /\ wallets = <<NewWallet(1, 0)>>
    /\ funds = <<NewFund(1, TRUE, 0, 0), NewFund(1, FALSE, 30, 0)>>
    /\ transactions \in
           {PostPlan(wallets, funds, 1, 1, LinesBody(1, "false", ls)).roots
            \o PostPlan(wallets, funds, 1, 1, LinesBody(1, "false", ls)).children :
                ls \in {<<Spent(-1)>>, <<Spent(-1), Spent(-3)>>}}
    /\ last = Resp("txPost", 200, 1)
    /\ snap = NoSnap
    /\ req = Idle
    /\ calls = NoCalls

NextPatchRace ==
    \E c \in Connections, u \in Users :
        \/ \E e \in {1, 2}, ls \in RaceLineLists, at \in {0, 2} :
               TxPatchRead(c, u, e, LinesBody(at, "undefined", ls))
        \/ TxPatchWrite(c)

SpecPatchRace == InitPatchRace /\ [][NextPatchRace]_vars

\* row i is a live posting that carries line l
Carries(i, l) ==
    /\ transactions'[i].isPosting
    /\ ~transactions'[i].deleted
    /\ transactions'[i].walletId = l.walletId
    /\ transactions'[i].fundId = l.fundId
    /\ transactions'[i].amount = l.amount

\* after the step the active postings of event e are exactly the list ls,
\* and the root has the shape of ls
HoldsExactly(e, ls) ==
    LET kids == {i \in DOMAIN transactions' :
                    /\ transactions'[i].parentId = e
                    /\ ~transactions'[i].deleted}
    IN  IF Len(ls) = 1
        THEN Carries(e, ls[1]) /\ kids = {}
        ELSE /\ ~transactions'[e].isPosting
             /\ \E x, y \in kids :
                    /\ x # y
                    /\ kids = {x, y}
                    /\ Carries(x, ls[1])
                    /\ Carries(y, ls[2])

\* C19. Last writer wins among concurrent edits of one event: when PATCH
\* requests with line lists for the same event overlap and answer success,
\* the active postings of the event after each commit are exactly one of the
\* lists sent, never a mixture, a union or a remainder, and the root row has
\* the shape of that list.  Each request rebuilds from the shape and the
\* children it read before its transaction.
C19_LastWriterWins ==
    [][ (last'.op = "txPatch" /\ last'.status = 200) =>
            \E ls \in RaceLineLists : HoldsExactly(last'.id, ls) ]_vars

-----------------------------------------------------------------------------
(* SpecCreateRace: two POST /api/transactions of the overdraft revision,    *)
(* one per connection, taken statement by statement: the insert of the      *)
(* parent row, the checks and the read of the fund balance, then the        *)
(* inserts of the postings.  A connection keeps its request once answered.  *)

\* POST up to its postings: the parent row, the checks, getFundBalanceAsOf
OverdraftPostRead(c, u, body) ==
    /\ c \in FreeConnections
    /\ \E plan \in {OverdraftPostPlan(wallets, funds, transactions, u, body)} :
       \E pid \in {Len(transactions) + 1} :
           IF plan.status # 200
           THEN /\ transactions' = plan.txs
                /\ last' = Resp("overdraftPost", plan.status, Null)
                /\ calls' = Called(c, [op |-> "overdraftPost", pc |-> "done",
                                       userId |-> u, id |-> Null, body |-> body,
                                       balanceBefore |-> 0,
                                       start |-> transactions])
           ELSE /\ transactions' = Append(transactions, plan.txs[pid])
                /\ UNCHANGED last
                /\ calls' = Called(c, [op |-> "overdraftPost", pc |-> "insert",
                                       userId |-> u, id |-> pid, body |-> body,
                                       balanceBefore |->
                                           IF body.type = "income" THEN 0
                                           ELSE getFundBalanceAsOf(funds,
                                                    transactions, u,
                                                    body.lines[1].fundId,
                                                    body.occurredAt),
                                       start |-> transactions])
    /\ UNCHANGED <<wallets, funds, snap, req>>

\* the inserts of its postings, the correction pair being decided by the
\* balance the request read, and its response
OverdraftPostWrite(c) ==
    /\ c \in DOMAIN calls
    /\ calls[c].pc = "insert"
    /\ LET call == calls[c]
           body == call.body
           eventIsPending == PendingOr(body.isPending, TRUE)
           savingsFundId == systemFund(funds, call.userId, "savings")
       IN  transactions' = transactions \o
               IF body.type = "income"
               THEN feedPostingRows(funds, call.userId, call.id, body.occurredAt,
                                    eventIsPending, body.walletId, body.amount,
                                    savingsFundId)
               ELSE overspendRows(funds, call.userId, call.id, body.occurredAt,
                                  body.lines[1],
                                  PendingOr(body.lines[1].isPending, eventIsPending),
                                  call.balanceBefore, savingsFundId, "null")
    /\ last' = Resp("overdraftPost", 200, calls[c].id)
    /\ calls' = [calls EXCEPT ![c].pc = "done"]
    /\ UNCHANGED <<wallets, funds, snap, req>>

\* one-line events against the regular fund, an income, a body with no line
CreateRaceBodies ==
    {LinesBody(at, "false", <<Spend(a)>>) : at \in {1, 2}, a \in {-1, -2, 1}}
    \cup {IncomeBody(2, "false", 1, 10), LinesBody(1, "false", <<>>)}

InitCreateRace ==
    /\ wallets = <<NewWallet(1, 0)>>
    /\ funds = <<KindFund(1, "income", NoPull, 0), KindFund(1, "savings", NoPull, 0),
                 KindFund(1, "regular", 30, 1)>>
    /\ transactions \in {<<>>, MigratedIncome}
    /\ last = Resp("import", 200, Null)
    /\ snap = NoSnap
    /\ req = Idle
    /\ calls = NoCalls

NextCreateRace ==
    \E c \in Connections, u \in Users :
        \/ \E b \in CreateRaceBodies : OverdraftPostRead(c, u, b)
        \/ OverdraftPostWrite(c)

SpecCreateRace == InitCreateRace /\ [][NextCreateRace]_vars

\* what a posting says: wallet, fund, amount, date, pending
PostingValue(row) ==
    <<row.walletId, row.fundId, row.amount, row.occurredAt, row.isPending>>

\* the active postings of a table, each value with the number of its rows
ActivePostings(txs) ==
    LET live == PostedPostings(txs, 1)
        values == {PostingValue(txs[i]) : i \in live}
    IN  [v \in values |-> Cardinality({i \in live : PostingValue(txs[i]) = v})]

\* the table after the requests b1 then b2, run one after the other on txs
InOrder(txs, b1, b2) ==
    OverdraftPostPlan(wallets, funds,
                      OverdraftPostPlan(wallets, funds, txs, 1, b1).txs,
                      1, b2).txs

\* C20. Creates of different events commute under interleaving: when two
\* createEvent requests have both answered, the active postings, and with
\* them every wallet and fund balance, are those of the two requests run
\* one after the other in one of the two orders, two expenses against the
\* same regular fund in the overdraft revision included.  There each
\* request decides its correction pair from the balance it read before the
\* other request's posting was stored.
C20_CreatesCommute ==
    (DOMAIN calls = Connections /\ \A c \in Connections : calls[c].pc = "done") =>
        \E c1, c2 \in Connections :
            /\ c1 # c2
            /\ Len(calls[c1].start) <= Len(calls[c2].start)
            /\ \/ ActivePostings(transactions)
                    = ActivePostings(InOrder(calls[c1].start,
                                             calls[c1].body, calls[c2].body))
               \/ ActivePostings(transactions)
                    = ActivePostings(InOrder(calls[c1].start,
                                             calls[c2].body, calls[c1].body))

-----------------------------------------------------------------------------
\* C21. Every active posting stored through the transaction routes for an
\* event that is not an income names both a wallet and a fund, after any
\* sequence of creates and edits.  POST asks a line for a wallet or a fund
\* only, and stores the line that names one of the two.
C21_LinesNameWalletAndFund ==
    \A i \in DOMAIN transactions :
        (Live(i) /\ transactions[i].isPosting
                 /\ transactions[i].incomePull = NoPull) =>
            /\ transactions[i].walletId # Null
            /\ transactions[i].fundId # Null

-----------------------------------------------------------------------------
(* SpecIsolation: user 1 calls every handler with any id, those of the      *)
(* wallet, the funds and the event of user 2 included.  User 2 holds a      *)
(* wallet, Savings and a regular fund, and either a one-line expense or an  *)
(* income whose only posting is the one of Savings.                         *)

Caller == 1
Other  == 2

IsolationIds == 0..MaxIsolationIds

\* lines of the caller that name the caller's or the other user's wallet and
\* fund, or a row of the other user as transactionId
IsolationLines ==
    {Line(Null, w, f, -1, "undefined") : w \in {1, 2}, f \in {1, 3}}
    \cup {Line(t, 1, 1, -1, "undefined") : t \in {1, 3}}

IsolationPostBodies ==
    {LinesBody(1, "undefined", <<l>>) : l \in {k \in IsolationLines : k.transactionId = Null}}
    \cup {IncomeBody(1, "undefined", w, 10) : w \in {1, 2}}

IsolationPatchBodies ==
    {LinesBody(0, "undefined", <<l>>) : l \in IsolationLines}
    \cup {MetaBody(2, "false"), IncomeBody(0, "undefined", 2, 20)}

InitIsolation ==
    /\ wallets = <<NewWallet(Caller, 0), NewWallet(Other, 1)>>
    /\ funds = <<NewFund(Caller, TRUE, 0, 0), NewFund(Other, TRUE, 0, 1),
                 NewFund(Other, FALSE, 0, 1)>>
    /\ transactions \in
           {<<NewTransaction(Other, Null, 1, "null", TRUE, TRUE, NoPull, 2, 3, -1)>>,
            <<NewTransaction(Other, Null, 1, "null", FALSE, TRUE, NoPull, Null, Null, 0),
              NewTransaction(Other, 1, 1, "null", TRUE, TRUE, 100, 2, 2, 10)>>}
    /\ last = Resp("import", 200, Null)
    /\ snap = NoSnap
    /\ req = Idle
    /\ calls = NoCalls

NextIsolation ==
    \/ \E w \in 1..3 : WalletPatch(Caller, w, TRUE, 0)
    \/ \E w \in 1..3 : WalletDelete(Caller, w)
    \/ \E f \in 1..MaxIsolationIds : FundPatch(Caller, f, TRUE, 0)
    \/ \E f \in 1..MaxIsolationIds : FundDelete(Caller, f)
    \/ \E b \in IsolationPostBodies : TxPost(Caller, b)
    \/ \E e \in IsolationIds, b \in IsolationPatchBodies : TxPatch(Caller, e, b)
    \/ \E e \in IsolationIds : TxDelete(Caller, e)
    \/ ClearPending(Caller)

SpecIsolation == InitIsolation /\ [][NextIsolation]_vars

\* the rows of user u in a table are the same before and after the step
RowsKept(before, after, u) ==
    /\ \A i \in DOMAIN before : before[i].userId = u => after[i] = before[i]
    /\ \A i \in DOMAIN after \ DOMAIN before : after[i].userId # u

\* the request named an id that is not a live row of the caller, and was
\* answered as the handler answers an id that does not exist
ForeignAsMissing ==
    /\ (/\ last'.op \in {"walletPatch", "walletDelete"}
        /\ last'.id # Null
        /\ last'.id \notin OwnedWallets(wallets, Caller)) => last'.status = 404
    /\ (/\ last'.op \in {"fundPatch", "fundDelete"}
        /\ last'.id # Null
        /\ last'.id \notin OwnedFunds(funds, Caller)) => last'.status = 404
    /\ (/\ last'.op \in {"txPatch", "txDelete"}
        /\ last'.id # Null
        /\ ~LiveRoot(transactions, Caller, last'.id)) => last'.status = 404

\* a body that names the wallet, the fund or a row of the other user is
\* answered as the same body with ids that no row has
SameAsUnknown ==
    LET unknown(id, known, none) == IF id \in known THEN id ELSE none
        own(l) == [l EXCEPT !.walletId = unknown(@, {Null, 1}, 3),
                            !.fundId = unknown(@, {Null, 1}, 4),
                            !.transactionId =
                                IF @ = Null \/ (@ \in DOMAIN transactions
                                    /\ transactions[@].userId = Caller)
                                THEN @ ELSE MaxIsolationIds + 1]
        blind(b) == [b EXCEPT !.walletId = unknown(@, {Null, 1}, 3),
                              !.lines = [k \in DOMAIN @ |-> own(@[k])]]
    IN  /\ \A b \in IsolationPostBodies :
               PostPlan(wallets, funds, Caller, Len(transactions) + 1, b).status
                   = PostPlan(wallets, funds, Caller, Len(transactions) + 1,
                              blind(b)).status
        /\ \A b \in IsolationPatchBodies, e \in IsolationIds :
               PatchPlan(wallets, funds, transactions, Caller, e, b).status
                   = PatchPlan(wallets, funds, transactions, Caller, e,
                               blind(b)).status

\* the totals reported to user 2 are those of the tables without the rows of
\* user 1
WithoutCaller(rows) ==
    [i \in DOMAIN rows |->
        IF rows[i].userId = Caller THEN [rows[i] EXCEPT !.deleted = TRUE]
        ELSE rows[i]]

TotalsWithoutCaller ==
    GetTotals(wallets, funds, transactions, Other)
        = GetTotals(WithoutCaller(wallets), WithoutCaller(funds),
                    WithoutCaller(transactions), Other)

\* C22. User isolation: whatever user 1 calls, with whatever ids, no row of
\* user 2 is inserted, changed or soft-deleted, the totals reported to user
\* 2 are what they are without the rows of user 1, and a call that names an
\* id of user 2 is answered as a call that names an id no row has.
C22_UserIsolation ==
    /\ [](TotalsWithoutCaller /\ SameAsUnknown)
    /\ [][ /\ RowsKept(wallets, wallets', Other)
           /\ RowsKept(funds, funds', Other)
           /\ RowsKept(transactions, transactions', Other)
           /\ ForeignAsMissing ]_vars

\* user 1, holding an event of their own, asked to delete the event of user
\* 2 and was answered not found
C22_Witness ==
    /\ last.op = "txDelete"
    /\ last.status = 404
    /\ last.id \in DOMAIN transactions
    /\ transactions[last.id].userId = Other
    /\ ~transactions[last.id].deleted
    /\ \E i \in DOMAIN transactions : transactions[i].userId = Caller

-----------------------------------------------------------------------------
\* an event the handlers of the overdraft revision may edit or delete: a
\* root row of the user that is neither soft-deleted nor voided
LiveEvent(txs, u, eventId) ==
    /\ LiveRoot(txs, u, eventId)
    /\ txs[eventId].status = "posted"

\* C23. PATCH and DELETE /api/transactions/:id accept only the id of a live
\* root event: for an id no row has, the id of a child posting or the id of
\* an event already deleted (voided) the answer is 404 and no row is
\* inserted, changed or voided.
C23_OnlyLiveRootEvents ==
    [][ (/\ last'.op \in {"overdraftPatch", "overdraftDelete"}
         /\ last'.id # Null
         /\ ~LiveEvent(transactions, 1, last'.id))
            => /\ last'.status = 404
               /\ transactions' = transactions ]_vars

-----------------------------------------------------------------------------
(* SpecBalances: GET /api/totals and GET /api/wallets over one wallet,      *)
(* Savings and a regular fund, under cleared and pending events of one and  *)
(* of two lines whose amounts are small or need the whole significand       *)

BalancePostBodies ==
    {LinesBody(1, p, <<Line(Null, 1, f, a, "undefined")>>) :
        p \in {"true", "false"}, f \in {2}, a \in {1, 130}}
    \cup {LinesBody(1, "true", <<Line(Null, 1, 2, -2, "undefined"),
                                 Line(Null, 1, 2, 1, "false")>>),
          LinesBody(1, "false", <<Line(Null, 1, 1, 130, "undefined")>>)}

InitBalances ==
    /\ wallets = <<NewWallet(1, 1)>>
    /\ funds = <<NewFund(1, TRUE, 0, 1), NewFund(1, FALSE, 0, 0)>>
    /\ transactions = <<>>
    /\ last = Resp("fundPost", 200, 2)
    /\ snap = NoSnap
    /\ req = Idle
    /\ calls = NoCalls

NextBalances ==
    \E u \in Users :
        \/ \E b \in BalancePostBodies :
               Len(transactions) < MaxBalanceRows /\ TxPost(u, b)
        \/ \E e \in RowIds : TxDelete(u, e)
        \/ ClearPending(u)

SpecBalances == InitBalances /\ [][NextBalances]_vars

\* the rows attributed to a wallet or a fund that are postings and are not
\* soft-deleted, and those of them that are pending or not
ActiveOf(field, id) ==
    {i \in DOMAIN transactions : /\ transactions[i][field] = id
                                 /\ transactions[i].isPosting
                                 /\ ~transactions[i].deleted}

PendingOf(field, id, isPending) ==
    {i \in ActiveOf(field, id) : transactions[i].isPending = isPending}

\* the two balances of one wallet or fund follow the formula
FollowsFormula(row, field, id, total) ==
    /\ total.balanceWithPending
           = Plus(row.openingAmount, SumAmount(transactions, ActiveOf(field, id)))
    /\ total.balance
           = Plus(row.openingAmount,
                  SumAmount(transactions, PendingOf(field, id, FALSE)))

\* the spacing of the doubles at the size of the ledger of a wallet or fund
Spacing(row, field, id) ==
    UlpFrom(Abs(row.openingAmount)
                + SumOver([i \in ActiveOf(field, id) |-> Abs(transactions[i].amount)],
                          ActiveOf(field, id)), 1, 1)

\* with-pending minus cleared is the sum of the pending postings, to within
\* slack
DifferenceIsPending(field, id, total, slack) ==
    Abs(Minus(total.balanceWithPending, total.balance)
            - SumAmount(transactions, PendingOf(field, id, TRUE))) <= slack

\* C24 (as stated). Balance formula, with the difference of the two
\* balances exactly the sum of the pending active postings.
C24_BalanceFormulaExact ==
    LET t == GetTotals(wallets, funds, transactions, 1)
        raw == fundTotalsWithRaw(funds, transactions, 1)
    IN  /\ \A w \in DOMAIN t.wallets :
               /\ FollowsFormula(wallets[w], "walletId", w, t.wallets[w])
               /\ DifferenceIsPending("walletId", w, t.wallets[w], 0)
        /\ \A f \in DOMAIN raw :
               /\ FollowsFormula(funds[f], "fundId", f, raw[f])
               /\ DifferenceIsPending("fundId", f, raw[f], 0)

\* C24. Balance formula: for every wallet and fund that is not deleted the
\* with-pending balance is openingAmount plus the sum of its active
\* postings and the cleared balance the same with the pending postings left
\* out, both sums taken in doubles; with-pending minus cleared is the sum of
\* the pending active postings up to the rounding of those additions, and
\* exactly that sum (zero) when no active posting is pending; parent rows
\* and deleted rows do not contribute.
C24_BalanceFormula ==
    LET t == GetTotals(wallets, funds, transactions, 1)
        raw == fundTotalsWithRaw(funds, transactions, 1)
        slack(row, field, id) ==
            IF PendingOf(field, id, TRUE) = {} THEN 0
            ELSE (Cardinality(ActiveOf(field, id)) + 1)
                     * (Spacing(row, field, id) \div 2)
    IN  /\ DOMAIN t.wallets = {w \in DOMAIN wallets : ~wallets[w].deleted}
        /\ DOMAIN raw = {f \in DOMAIN funds : ~funds[f].deleted}
        /\ \A w \in DOMAIN t.wallets :
               /\ FollowsFormula(wallets[w], "walletId", w, t.wallets[w])
               /\ DifferenceIsPending("walletId", w, t.wallets[w],
                                      slack(wallets[w], "walletId", w))
        /\ \A f \in DOMAIN raw :
               /\ FollowsFormula(funds[f], "fundId", f, raw[f])
               /\ DifferenceIsPending("fundId", f, raw[f],
                                      slack(funds[f], "fundId", f))

\* the regular fund holds a cleared posting, a pending posting and a deleted
\* one under a parent row, and its two balances differ
C24_Witness ==
    LET raw == fundTotalsWithRaw(funds, transactions, 1)
    IN  /\ PendingOf("fundId", 2, TRUE) # {}
        /\ PendingOf("fundId", 2, FALSE) # {}
        /\ \E i \in DOMAIN transactions :
               /\ transactions[i].fundId = 2
               /\ transactions[i].deleted
        /\ \E i \in DOMAIN transactions :
               ~transactions[i].isPosting /\ ~transactions[i].deleted
        /\ raw[2].rawBalanceWithPending # raw[2].rawBalance

-----------------------------------------------------------------------------
\* C25. In the overdraft revision no regular fund ever has a negative raw
\* with-pending balance: after any sequence of completed creates, edits and
\* deletes of events, back-dated ones and deletes of an earlier income
\* included, openingAmount plus the posted postings of every regular fund is
\* at least 0.
C25_RegularFundNeverNegative ==
    \A f \in DOMAIN funds :
        (funds[f].kind = "regular" /\ ~funds[f].deleted)
            => Plus(funds[f].openingAmount,
                    SumAmount(transactions,
                              {i \in PostedPostings(transactions, 1) :
                                  transactions[i].fundId = f})) >= 0

-----------------------------------------------------------------------------
(* SpecRepay: PATCH and DELETE of the overdraft revision on a ledger where  *)
(* the regular fund, opening with 1, was advanced 1 by Savings for an       *)
(* expense of 2 on day 1 and a credit or an income follows on day 2         *)

Overspent ==
    OverdraftPostPlan(<<NewWallet(1, 0)>>, funds, <<>>, 1,
                      LinesBody(1, "false", <<Spend(-2)>>)).txs

RepayPatchBodies ==
    {LinesBody(0, "undefined", <<Spend(3)>>),
     LinesBody(0, "undefined", <<Spend(-2)>>),
     IncomeBody(0, "undefined", 1, 20),
     MetaBody(1, "undefined")}

InitRepay ==
    /\ wallets = <<NewWallet(1, 0)>>
    /\ funds = <<KindFund(1, "income", NoPull, 0), KindFund(1, "savings", NoPull, 0),
                 KindFund(1, "regular", 30, 1)>>
    /\ \E b \in {LinesBody(2, "false", <<Spend(1)>>), IncomeBody(2, "false", 1, 10)} :
           transactions = OverdraftPostPlan(wallets, funds, Overspent, 1, b).txs
    /\ last = Resp("overdraftPost", 200, Len(Overspent) + 1)
    /\ snap = NoSnap
    /\ req = Idle
    /\ calls = NoCalls

NextRepay ==
    \/ \E e \in {1, Len(Overspent) + 1}, b \in RepayPatchBodies :
           OverdraftPatchWithin(1, e, b, MaxRepayRows)
    \/ \E e \in {1, Len(Overspent) + 1} : OverdraftDelete(1, e)

SpecRepay == InitRepay /\ [][NextRepay]_vars

\* the posted postings of kind k on fund f
PostedOfKind(f, k) ==
    {i \in PostedPostings(transactions, 1) :
        transactions[i].fundId = f /\ transactions[i].postingKind = k}

\* C26. Overdraft debt is never over-repaid: for every regular fund the
\* posted overdraft_repayment amounts taken from it do not exceed the posted
\* overdraft_advance amounts given to it, in every reachable state, for
\* any order of occurredAt and after any void of the advancing event.
C26_NeverOverRepaid ==
    \A f \in DOMAIN funds :
        funds[f].kind = "regular"
            => -SumAmount(transactions, PostedOfKind(f, "overdraft_repayment"))
                   <= SumAmount(transactions, PostedOfKind(f, "overdraft_advance"))

-----------------------------------------------------------------------------
\* the sum of the numbers f[i], i in S, as a sum of reals
RECURSIVE TotalOf(_, _)
TotalOf(f, S) ==
    IF S = {} THEN 0
    ELSE LET i == CHOOSE x \in S : TRUE IN f[i] + TotalOf(f, S \ {i})

\* displayed and raw fund balances of GET /api/totals, summed
DisplayedTotal(out, withPending) ==
    TotalOf([f \in DOMAIN out |-> IF withPending THEN out[f].balanceWithPending
                                  ELSE out[f].balance], DOMAIN out)

RawTotal(out, withPending) ==
    TotalOf([f \in DOMAIN out |-> IF withPending THEN out[f].rawBalanceWithPending
                                  ELSE out[f].rawBalance], DOMAIN out)

\* what the non-savings funds of the response are short of
ShortOf(out, withPending) ==
    TotalOf([f \in DOMAIN out |->
                IF out[f].isSavings THEN 0
                ELSE Max(0, IF withPending THEN -out[f].rawBalanceWithPending
                            ELSE -out[f].rawBalance)], DOMAIN out)

\* the displayed total is the raw total to within half the spacing of the
\* doubles at the size of the subtraction Savings - deficit, once per fund
ConservesWithin(out, withPending, exact) ==
    LET short == ShortOf(out, withPending)
        size == short + TotalOf([f \in DOMAIN out |->
                    IF out[f].isSavings
                    THEN Abs(IF withPending THEN out[f].rawBalanceWithPending
                             ELSE out[f].rawBalance)
                    ELSE 0], DOMAIN out)
        slack == IF exact \/ short = 0 THEN 0
                 ELSE Cardinality(DOMAIN out) * (UlpFrom(size, 1, 1) \div 2)
    IN  Abs(DisplayedTotal(out, withPending) - RawTotal(out, withPending)) <= slack

\* C27 (as stated). The display transform conserves the total exactly.
C27_DisplayConservesTotalExact ==
    LET out == GetTotals(wallets, funds, transactions, 1).funds
    IN  Cardinality({f \in DOMAIN out : out[f].isSavings}) = 1
            => /\ ConservesWithin(out, FALSE, TRUE)
               /\ ConservesWithin(out, TRUE, TRUE)

\* C27. The display transform of GET /api/totals conserves the total: with
\* exactly one savings fund, the sum of the displayed fund balances equals
\* the sum of the raw fund balances, for the cleared and for the
\* with-pending figures, up to the rounding of the double subtraction
\* Savings - deficit, and exactly when no non-savings fund is overspent.
C27_DisplayConservesTotal ==
    LET out == GetTotals(wallets, funds, transactions, 1).funds
    IN  Cardinality({f \in DOMAIN out : out[f].isSavings}) = 1
            => /\ ConservesWithin(out, FALSE, FALSE)
               /\ ConservesWithin(out, TRUE, FALSE)

\* the regular fund is overspent with pending rows counted and not by
\* cleared rows, so Savings is shown less than it holds
C27_Witness ==
    LET out == GetTotals(wallets, funds, transactions, 1).funds
    IN  /\ out[2].rawBalanceWithPending < 0
        /\ out[2].balanceWithPending = 0
        /\ out[2].rawBalance >= 0
        /\ out[1].balanceWithPending < out[1].rawBalanceWithPending
        /\ out[1].balance = out[1].rawBalance

-----------------------------------------------------------------------------
(* SpecEditDeleteRace: DELETE /api/transactions/:id statement by statement  *)
(* next to PATCH with lines, of two connections, on one stored event.       *)
(* DELETE looks the event up and then sends two updates outside any         *)
(* transaction.                                                             *)

\* DELETE up to its first update: the lookup of the event
TxDeleteRead(c, u, eventId) ==
    /\ c \in FreeConnections
    /\ eventId # Null
    /\ IF ~LiveRoot(transactions, u, eventId)
       THEN last' = Resp("txDelete", 404, eventId) /\ UNCHANGED calls
       ELSE /\ calls' = Called(c, [op |-> "txDelete", userId |-> u,
                                   id |-> eventId, pc |-> "root"])
            /\ UNCHANGED last
    /\ UNCHANGED <<wallets, funds, transactions, snap, req>>

\* update ... set deletedAt where id = eventId
TxDeleteRoot(c) ==
    /\ c \in DOMAIN calls
    /\ calls[c].op = "txDelete"
    /\ calls[c].pc = "root"
    /\ transactions' = DeletedRootOnly(transactions, calls[c].userId, calls[c].id)
    /\ calls' = Called(c, [calls[c] EXCEPT !.pc = "children"])
    /\ UNCHANGED <<wallets, funds, last, snap, req>>

\* update ... set deletedAt where parentId = eventId, and the response
TxDeleteChildren(c) ==
    /\ c \in DOMAIN calls
    /\ calls[c].op = "txDelete"
    /\ calls[c].pc = "children"
    /\ transactions' =
           [i \in DOMAIN transactions |->
               IF /\ transactions[i].userId = calls[c].userId
                  /\ transactions[i].parentId = calls[c].id
               THEN [transactions[i] EXCEPT !.deleted = TRUE]
               ELSE transactions[i]]
    /\ last' = Resp("txDelete", 200, calls[c].id)
    /\ calls' = Answered(c)
    /\ UNCHANGED <<wallets, funds, snap, req>>

NextEditDeleteRace ==
    \E c \in Connections, u \in Users :
        \/ \E ls \in RaceLineLists :
               TxPatchRead(c, u, 1, LinesBody(0, "undefined", ls))
        \/ TxPatchWrite(c)
        \/ \E e \in {1, 2} : TxDeleteRead(c, u, e)
        \/ TxDeleteRoot(c)
        \/ TxDeleteChildren(c)

SpecEditDeleteRace == InitPatchRace /\ [][NextEditDeleteRace]_vars

\* C28. No active posting hangs under a deleted event: once the requests in
\* flight are answered, every child row that is not deleted has a parent
\* row that is not deleted, also when a DELETE and a PATCH of the same event
\* interleave.
C28_NoPostingUnderDeletedEvent ==
    calls = NoCalls =>
        \A i \in DOMAIN transactions :
            (transactions[i].parentId # Null /\ ~transactions[i].deleted)
                => ~transactions[transactions[i].parentId].deleted

-----------------------------------------------------------------------------
(* SpecPending: events whose lines carry a pending flag of their own, next  *)
(* to the flag of the event, created, edited and cleared                    *)

\* a line on wallet 1 and the regular fund with its own pending flag
Flagged(transactionId, isPending) == Line(transactionId, 1, 2, -1, isPending)

PendingPostBodies ==
    {LinesBody(1, p, <<Flagged(Null, q)>>) :
        p \in {"true", "false"}, q \in {"undefined", "true", "false"}}
    \cup {LinesBody(1, p, <<Flagged(Null, q), Flagged(Null, "false")>>) :
        p \in {"true", "false"}, q \in {"undefined", "true"}}

PendingPatchBodies ==
    {LinesBody(0, p, <<Flagged(Null, q)>>) :
        p \in {"undefined", "false"}, q \in {"undefined", "true"}}
    \cup {MetaBody(0, p) : p \in {"true", "false"}}

InitPending ==
    /\ wallets = <<NewWallet(1, 0)>>
    /\ funds = <<NewFund(1, TRUE, 0, 0), NewFund(1, FALSE, 0, 0)>>
    /\ transactions = <<>>
    /\ last = Resp("fundPost", 200, 2)
    /\ snap = NoSnap
    /\ req = Idle
    /\ calls = NoCalls

NextPending ==
    \E u \in Users :
        \/ \E b \in PendingPostBodies : TxPost(u, b)
        \/ \E e \in {1, 2}, b \in PendingPatchBodies : TxPatch(u, e, b)
        \/ ClearPending(u)

SpecPending == InitPending /\ [][NextPending]_vars

-----------------------------------------------------------------------------
\* the active postings of event e: the root itself for a posting-only event,
\* the rows under it for a parent
PostingsOfEvent(e) ==
    IF transactions[e].isPosting THEN {e}
    ELSE {i \in DOMAIN transactions : /\ transactions[i].parentId = e
                                      /\ transactions[i].isPosting
                                      /\ ~transactions[i].deleted}

\* C29. The pending flag of a root event is the aggregate of its postings:
\* after any sequence of create, edit and clear-pending calls a root event
\* that is not deleted has isPending = true if and only if one of its active
\* postings has, so that the pendingOnly listing returns exactly the events
\* that hold a pending posting.
C29_RootPendingIsAggregate ==
    \A e \in DOMAIN transactions :
        (transactions[e].parentId = Null /\ ~transactions[e].deleted)
            => (transactions[e].isPending
                    <=> \E i \in PostingsOfEvent(e) : transactions[i].isPending)

-----------------------------------------------------------------------------
\* isIncomeLike of the client, over the event as GET /api/transactions lists
\* it: its children are the active postings under a parent row
isIncomeLike(txs, u, eventId) ==
    LET children == IF txs[eventId].isPosting THEN {}
                    ELSE childPostings(txs, u, eventId)
        allocations == {c \in children : txs[c].incomePull # NoPull}
        walletIds == {txs[c].walletId : c \in allocations} \ {Null}
    IN  /\ children # {}
        /\ allocations # {}
        /\ \A c \in allocations : txs[c].amount > 0
        /\ Cardinality(walletIds) = 1

\* C30. The client and the server classify income events alike: for every
\* event created as an income, with pulls that sum to at most 100, exactly
\* 100 included, and after any later income edit, isIncomeLike of the client
\* is true exactly when isIncomeLikeEvent of the server is.
C30_ClientAndServerAgree ==
    \A e \in DOMAIN transactions :
        LiveRoot(transactions, 1, e)
            => (isIncomeLike(transactions, 1, e)
                    <=> isIncomeLikeEvent(transactions, 1, e))

====
